---- MODULE Spec2Model ----
(***************************************************************************)
(* Scope analysis of python_minifier.rename: the namespace tree built by   *)
(* create_all_namespaces, the bindings made by bind_names and the name     *)
(* resolution of resolve_names, followed by the rename options of util.py. *)
(*                                                                         *)
(* The syntax tree is a sequence of node records in pre-order; a node's    *)
(* parent field is the index of its syntactic parent.  Statement and       *)
(* expression nodes that the passes only recurse through (Assign, Expr,    *)
(* BinOp, Call, ...) are elided: a Name node hangs directly under the node *)
(* that introduces its scope, and records in aug whether its syntactic     *)
(* parent is an AugAssign.  A node's field is the field of its parent it   *)
(* sits in (body, args, decorator_list, returns, ...); siblings are laid   *)
(* out in the order ast.iter_child_nodes yields them.                      *)
(***************************************************************************)
EXTENDS Naturals, Sequences, FiniteSets

VARIABLES tree, node_namespace, namespaces, pc, pos

vars == <<tree, node_namespace, namespaces, pc, pos>>

RECURSIVE get_global_namespace(_, _)
RECURSIVE get_nonlocal_namespace(_, _)
RECURSIVE get_binding(_, _, _)
RECURSIVE create_child_namespaces(_, _, _)
RECURSIVE create_body(_, _, _)
RECURSIVE apply_local_rename_options(_, _, _, _)
RECURSIVE apply_local_children(_, _, _, _)
RECURSIVE Extend(_, _, _)
RECURSIVE RightPath(_, _)
RECURSIVE resolve_nonlocal(_, _, _, _)
RECURSIVE bind_global(_, _, _, _)
RECURSIVE IsAncestorOrSelf(_, _)
RECURSIVE LookupChain(_, _)
RECURSIVE GraftAll(_, _, _)
RECURSIVE Within(_, _)
RECURSIVE DirectlyWithin(_, _)
RECURSIVE assign_args(_, _, _, _)
RECURSIVE create_generators(_, _, _, _)
RECURSIVE join(_)
RECURSIVE insert_from(_, _, _)
RECURSIVE get_binding_calls(_, _, _)

(***************************************************************************)
(* Bounds of the input family.                                             *)
(***************************************************************************)
\* Nodes appended, in every possible way, after one of the Prefixes.
MaxTail == 3

\* Ordinary (positional-or-keyword) parameters of a definition.
MaxArgs == 2

\* Clauses (for ... in ...) of a comprehension.
MaxClauses == 2

\* Nodes of a tree that add_child calls have grown.
MaxNodes == 5

\* Statements of a suite given to insert.
MaxSuite == 3

\* The largest int and float value of a Constant node.
MaxNumber == 2

\* Constant nodes visited in a row.
MaxConstants == 2

(***************************************************************************)
(* Names.                                                                  *)
(***************************************************************************)
\* dir(builtins), cut down to the names the inputs use plus the five
\* scope-introspecting ones.
builtins == {"print", "exec", "eval", "locals", "globals", "vars"}

\* resolve_names.py:40
introspecting == {"exec", "eval", "locals", "globals", "vars"}

\* The identifier a program's Name / Global / Nonlocal nodes use: one that
\* is no builtin, an ordinary builtin, a scope-introspecting builtin.
FocusNames == {"x", "print", "eval"}

FunctionName == "f"
ClassName == "C"

(***************************************************************************)
(* Syntax tree nodes.                                                      *)
(***************************************************************************)
Node(kind, parent, name, ctx, aug, names) ==
    [kind |-> kind, parent |-> parent, name |-> name, ctx |-> ctx,
     aug |-> aug, names |-> names, field |-> "body"]

Module == Node("Module", 0, "", "", FALSE, <<>>)
FunctionDef(p) == Node("FunctionDef", p, FunctionName, "", FALSE, <<>>)
ClassDef(p) == Node("ClassDef", p, ClassName, "", FALSE, <<>>)
Load(p, id) == Node("Name", p, id, "Load", FALSE, <<>>)
Store(p, id) == Node("Name", p, id, "Store", FALSE, <<>>)
AugStore(p, id) == Node("Name", p, id, "Store", TRUE, <<>>)
Global(p, id) == Node("Global", p, "", "", FALSE, <<id>>)
Nonlocal(p, id) == Node("Nonlocal", p, "", "", FALSE, <<id>>)

\* The nodes of definitions with parameters, type parameters, decorators
\* and annotations, of lambdas and of comprehensions.
arguments(p) == Node("arguments", p, "", "", FALSE, <<>>)
arg(p, name) == Node("arg", p, name, "", FALSE, <<>>)
Lambda(p) == Node("Lambda", p, "", "", FALSE, <<>>)
GeneratorExp(p) == Node("GeneratorExp", p, "", "", FALSE, <<>>)
DictComp(p) == Node("DictComp", p, "", "", FALSE, <<>>)
comprehension(p) == Node("comprehension", p, "", "", FALSE, <<>>)
TypeVar(p, name) == Node("TypeVar", p, name, "", FALSE, <<>>)
Attribute(p, attr) == Node("Attribute", p, attr, "Load", FALSE, <<>>)

\* The nodes of assignments of list and string literals; the name of a Str
\* node is its value (el.s).
Assign(p) == Node("Assign", p, "", "", FALSE, <<>>)
AugAssign(p) == Node("AugAssign", p, "", "", FALSE, <<>>)
AnnAssign(p) == Node("AnnAssign", p, "", "", FALSE, <<>>)
List(p) == Node("List", p, "", "Load", FALSE, <<>>)
Str(p, s) == Node("Str", p, s, "", FALSE, <<>>)

\* import ..: an alias node keeps the characters of its dotted path
\* (alias.name) in names and alias.asname in name, "" for None.
Import(p) == Node("Import", p, "", "", FALSE, <<>>)
alias(p, path, asname) == Node("alias", p, asname, "", FALSE, path)

\* Node n, sitting in the given field of its parent.
In(field, n) == [n EXCEPT !.field = field]

\* Tree t with the subtree sub hung under its node p; in a subtree the
\* parent of the root is 0 and the other parents are indices into it.
Graft(t, p, sub) ==
    t \o [k \in 1..Len(sub) |->
            [sub[k] EXCEPT !.parent = IF @ = 0 THEN p ELSE @ + Len(t)]]

GraftAll(t, p, subs) ==
    IF subs = <<>> THEN t
    ELSE GraftAll(Graft(t, p, Head(subs)), p, Tail(subs))

\* The subtree of a root node and its children's subtrees, in order.
SubTree(root, subs) == GraftAll(<<root>>, 1, subs)

\* The nodes that may own child nodes in the input family.
IsContainer(n) == n.kind \in {"Module", "FunctionDef", "ClassDef"}

\* ast.iter_child_nodes(node): the children of node i, in field order.
iter_child_nodes(t, i) ==
    SelectSeq([k \in 1..Len(t) |-> k], LAMBDA j : t[j].parent = i)

Range(s) == {s[k] : k \in DOMAIN s}

\* getattr(node, field), as the list of the children in that field.
field_nodes(t, i, f) == SelectSeq(iter_child_nodes(t, i), LAMBDA j : t[j].field = f)

\* Node i and its container ancestors, up to the Module.
RightPath(t, i) ==
    IF i = 0 THEN {}
    ELSE (IF IsContainer(t[i]) THEN {i} ELSE {}) \cup RightPath(t, t[i].parent)

\* Every node that can be appended to tree t in pre-order.
NextNodes(t, id) ==
    UNION { {FunctionDef(p), ClassDef(p), Load(p, id), Store(p, id),
             AugStore(p, id), Global(p, id), Nonlocal(p, id)}
            : p \in RightPath(t, Len(t)) }

\* All trees that extend t by at most k nodes.
Extend(t, id, k) ==
    IF k = 0 THEN {t}
    ELSE {t} \cup UNION { Extend(Append(t, n), id, k - 1) : n \in NextNodes(t, id) }

\* A program head in the shape of the repository's resolver tests
\* (test_nonlocal_skips_class, test_global_skips_function): a module
\* binding, a function binding the same name, inside it a class binding it
\* again, and a method of that class.
MethodHead ==
    <<Module, Store(1, "x"), FunctionDef(1), Store(3, "x"), ClassDef(3), Store(5, "x"),
      FunctionDef(5)>>

\* The inputs: every program of at most MaxTail nodes, for each focus name,
\* and every extension of MethodHead by fewer than MaxTail nodes.  Each
\* entry is a head, the name its tail uses and the length of the tail.
Programs ==
    { <<(<<Module>>), id, MaxTail>> : id \in FocusNames }
        \cup { <<MethodHead, "x", MaxTail - 1>> }

(***************************************************************************)
(* Inputs with parameters, type parameters, lambdas and comprehensions.    *)
(***************************************************************************)
\* Where a definition sits: at module level, in a class body, in a
\* function body.
Enclosures == {"Module", "ClassDef", "FunctionDef"}

\* The module whose enclosing scope (see Enclosures) holds the statements.
Enclosed(enclosure, statements) ==
    IF enclosure = "Module" THEN SubTree(Module, statements)
    ELSE IF enclosure = "ClassDef"
    THEN SubTree(Module, <<SubTree(ClassDef(0), statements)>>)
    ELSE SubTree(Module, <<SubTree(FunctionDef(0), statements)>>)

\* field = id (a read of the name id)
NameTree(field, id) == <<In(field, Load(0, id))>>

\* field = lambda q: id
LambdaTree(field, id) ==
    SubTree(In(field, Lambda(0)),
            <<SubTree(In("args", arguments(0)), << <<In("args", arg(0, "q"))>> >>),
              NameTree("body", id)>>)

\* A parameter with its annotation (a list of at most one subtree).
ArgTree(field, name, annotation) == SubTree(In(field, arg(0, name)), annotation)

\* ast.arguments, its fields in the order of arguments._fields.
ArgumentsTree(posonlyargs, args, vararg, kwonlyargs, kw_defaults, kwarg, defaults) ==
    SubTree(In("args", arguments(0)),
            posonlyargs \o args \o vararg \o kwonlyargs \o kw_defaults \o kwarg \o defaults)

\* def f[type_params](args) -> returns, decorated, its fields in the order
\* of FunctionDef._fields.
FunctionTree(args, body, decorator_list, returns, type_params) ==
    SubTree(FunctionDef(0), <<args>> \o body \o decorator_list \o returns \o type_params)

\* The type-parameter lists tried: none, [T], [T: (lambda q: T)].
TypeParamOptions ==
    { <<>>,
      << <<In("type_params", TypeVar(0, "T"))>> >>,
      << SubTree(In("type_params", TypeVar(0, "T")), <<LambdaTree("bound", "T")>>) >> }

\* The annotations tried for the parameter a: none, T, lambda q: a.
AnnotationOptions ==
    { <<>>, <<NameTree("annotation", "T")>>, <<LambdaTree("annotation", "a")>> }

\* def f[..](a: .. = .., *, k = ..) -> ..: T; a   in each enclosure, with
\* the default values T or a, or none.
AnnotatedPrograms ==
    { Enclosed(enclosure,
        <<FunctionTree(
            ArgumentsTree(<<>>, <<ArgTree("args", "a", annotation)>>, <<>>,
                          << <<In("kwonlyargs", arg(0, "k"))>> >>, kw_defaults, <<>>, defaults),
            <<NameTree("body", "T"), NameTree("body", "a")>>,
            <<>>, returns, type_params)>>) :
        enclosure \in Enclosures,
        type_params \in TypeParamOptions,
        annotation \in AnnotationOptions,
        defaults \in { <<>>, <<NameTree("defaults", "T")>>, <<NameTree("defaults", "a")>> },
        kw_defaults \in { <<>>, <<NameTree("kw_defaults", "a")>> },
        returns \in { <<>>, <<NameTree("returns", "T")>> } }

\* The annotations tried for the parameters *v and **w: none, T, a.
VariadicAnnotationOptions ==
    { <<>>, <<NameTree("annotation", "T")>>, <<NameTree("annotation", "a")>> }

\* def f[..](a: .., *v: .., **w: ..): a   in each enclosure.
VariadicPrograms ==
    { Enclosed(enclosure,
        <<FunctionTree(
            ArgumentsTree(<<>>, <<ArgTree("args", "a", annotation)>>,
                          <<ArgTree("vararg", "v", varargannotation)>>, <<>>, <<>>,
                          <<ArgTree("kwarg", "w", kwargannotation)>>, <<>>),
            <<NameTree("body", "a")>>, <<>>, <<>>, type_params)>>) :
        enclosure \in Enclosures,
        type_params \in TypeParamOptions,
        annotation \in VariadicAnnotationOptions,
        varargannotation \in VariadicAnnotationOptions,
        kwargannotation \in VariadicAnnotationOptions }

\* class C[..](T): T   and   lambda q: T   in each enclosure.
ClassAndLambdaPrograms ==
    { Enclosed(enclosure,
        <<SubTree(ClassDef(0), bases \o <<NameTree("body", "T")>> \o type_params)>>) :
        enclosure \in Enclosures,
        type_params \in TypeParamOptions,
        bases \in { <<>>, <<NameTree("bases", "T")>> } }
    \cup { Enclosed(enclosure, <<LambdaTree("body", "T")>>) : enclosure \in Enclosures }

\* The decorator lists tried: none, @classmethod, @staticmethod,
\* @a.classmethod, @classmethod @staticmethod.
DecoratorOptions ==
    { <<>>,
      <<NameTree("decorator_list", "classmethod")>>,
      <<NameTree("decorator_list", "staticmethod")>>,
      <<SubTree(In("decorator_list", Attribute(0, "classmethod")), <<NameTree("value", "a")>>)>>,
      <<NameTree("decorator_list", "classmethod"), NameTree("decorator_list", "staticmethod")>> }

\* The parameter lists tried: posonly positional-only parameters, then
\* args ordinary ones, *v, kwonly keyword-only ones, **w.
ParameterOptions ==
    { ArgumentsTree([i \in 1..posonly |-> <<In("posonlyargs", arg(0, "p"))>>],
                    [i \in 1..args |-> <<In("args", arg(0, IF i = 1 THEN "self" ELSE "b"))>>],
                    [i \in 1..vararg |-> <<In("vararg", arg(0, "v"))>>],
                    [i \in 1..kwonly |-> <<In("kwonlyargs", arg(0, "k"))>>],
                    <<>>,
                    [i \in 1..kwarg |-> <<In("kwarg", arg(0, "w"))>>],
                    <<>>) :
        posonly \in 0..1, args \in 0..MaxArgs, vararg \in 0..1, kwonly \in 0..1,
        kwarg \in 0..1 }

\* A decorated def with each parameter list, and a lambda with each
\* parameter list, in each enclosure.
ParameterPrograms ==
    { Enclosed(enclosure, <<FunctionTree(args, <<>>, decorator_list, <<>>, <<>>)>>) :
        enclosure \in Enclosures, args \in ParameterOptions,
        decorator_list \in DecoratorOptions }
    \cup { Enclosed(enclosure, <<SubTree(Lambda(0), <<args, NameTree("body", "p")>>)>>) :
             enclosure \in Enclosures, args \in ParameterOptions }

\* for x in <iter> if <ifs>: the clauses tried.
ClauseOptions ==
    { SubTree(In("generators", comprehension(0)),
              << <<In("target", Store(0, "x"))>>, NameTree("iter", iter) >> \o ifs) :
        iter \in {"x", "y"}, ifs \in { <<>>, <<NameTree("ifs", "x")>> } }

\* Every list of 1..n clauses.
ClauseLists(n) == UNION { [1..k -> ClauseOptions] : k \in 1..n }

\* x = ..; y = ..; (x for ..) or {x: y for ..}   in each enclosure.
ComprehensionPrograms ==
    { Enclosed(enclosure,
        << <<Store(0, "x")>>, <<Store(0, "y")>>, SubTree(head[1], head[2] \o generators) >>) :
        enclosure \in Enclosures,
        head \in { <<GeneratorExp(0), <<NameTree("elt", "x")>> >>,
                   <<DictComp(0), <<NameTree("key", "x"), NameTree("value", "y")>> >> },
        generators \in ClauseLists(MaxClauses) }

\* The global / nonlocal statements tried in one scope.
DeclarationOptions ==
    { <<>>,
      << <<Node("Global", 0, "", "", FALSE, <<"x">>)>> >>,
      << <<Node("Global", 0, "", "", FALSE, <<"x", "y">>)>> >>,
      << <<Node("Nonlocal", 0, "", "", FALSE, <<"x">>)>> >>,
      << <<Node("Nonlocal", 0, "", "", FALSE, <<"x", "y">>)>> >>,
      << <<Node("Global", 0, "", "", FALSE, <<"y">>)>>,
         <<Node("Nonlocal", 0, "", "", FALSE, <<"x">>)>> >> }

\* def f(): <outer>; def f(): <inner>      in the shape of
\* class C: <sibling>                      test_global_nonlocal
DeclarationPrograms ==
    { SubTree(Module,
        << SubTree(FunctionDef(0), outer \o <<SubTree(FunctionDef(0), inner)>>),
           SubTree(ClassDef(0), sibling) >>) :
        outer \in DeclarationOptions, inner \in DeclarationOptions,
        sibling \in DeclarationOptions }

\* The trees whose scope tree later add_child calls extend.
TransformPrograms ==
    { <<Module>>, Enclosed("ClassDef", <<>>),
      Enclosed("FunctionDef", << <<ClassDef(0)>> >>) }

\* The child trees given to add_child: x = .., def f[T](): .., class C: ..,
\* lambda: x.
AddedTrees ==
    { <<Store(0, "x")>>,
      SubTree(FunctionDef(0), << <<In("type_params", TypeVar(0, "T"))>> >>),
      <<ClassDef(0)>>,
      SubTree(Lambda(0), << <<In("args", arguments(0))>>, NameTree("body", "x") >>) }

\* The right-hand sides tried: ["f"], ["x", f], "f".
ExportValues ==
    { SubTree(In("value", List(0)), << <<In("elts", Str(0, "f"))>> >>),
      SubTree(In("value", List(0)),
              << <<In("elts", Str(0, "x"))>>, NameTree("elts", "f") >>),
      <<In("value", Str(0, "f"))>> }

\* The statements tried: none; __all__ = v, y = __all__ = v, y = v;
\* t += v and t: .. = v with t one of __all__, x.
ExportOptions ==
    { <<>> }
    \cup { <<SubTree(Assign(0), targets \o <<value>>)>> :
             targets \in { << <<In("targets", Store(0, "__all__"))>> >>,
                           << <<In("targets", Store(0, "y"))>>,
                              <<In("targets", Store(0, "__all__"))>> >>,
                           << <<In("targets", Store(0, "y"))>> >> },
             value \in ExportValues }
    \cup { <<SubTree(AugAssign(0), << <<In("target", AugStore(0, target))>>, value >>)>> :
             target \in {"__all__", "x"}, value \in ExportValues }
    \cup { <<SubTree(AnnAssign(0), << <<In("target", Store(0, target))>>, value >>)>> :
             target \in {"__all__", "x"}, value \in ExportValues }

\* x = ..; <statement>; def f(): x = ..; <__all__ = ["x"] or nothing>;
\* class C: x = ..; def f(): x = ..; print
OptionPrograms ==
    { SubTree(Module,
        << <<Store(0, "x")>> >> \o export \o
        << SubTree(FunctionDef(0),
             << <<Store(0, "x")>> >> \o inner \o
             << SubTree(ClassDef(0),
                  << <<Store(0, "x")>>,
                     SubTree(FunctionDef(0),
                             << <<Store(0, "x")>>, NameTree("body", "print") >>) >>) >>) >>) :
        export \in ExportOptions,
        inner \in { <<>>,
                    <<SubTree(Assign(0),
                        << <<In("targets", Store(0, "__all__"))>>,
                           SubTree(In("value", List(0)),
                                   << <<In("elts", Str(0, "x"))>> >>) >>)>> } }

\* import x, import x.y, import y.x, each with and without "as x".
ImportOptions ==
    { SubTree(Import(0), << <<In("names", alias(0, path, asname))>> >>) :
        path \in { <<"x">>, <<"x", ".", "y">>, <<"y", ".", "x">> },
        asname \in {"", "x"} }

\* The statements of the scope that holds the import: a declaration of x
\* or none, the import, a read of x or none.
ImportBodies(declarations) ==
    { declaration \o <<import>> \o use :
        declaration \in declarations,
        import \in ImportOptions,
        use \in { <<>>, <<NameTree("body", "x")>> } }

\* The import at module level, in a function, in a function nested in a
\* function that binds x and in a class nested in such a function, the
\* module binding x or not.
ImportPrograms ==
    { SubTree(Module, body) : body \in ImportBodies({ <<>> }) }
    \cup { SubTree(Module, outer \o <<SubTree(FunctionDef(0), body)>>) :
             outer \in { <<>>, << <<Store(0, "x")>> >> },
             body \in ImportBodies({ <<>>, << <<Global(0, "x")>> >> }) }
    \cup { SubTree(Module,
             outer \o <<SubTree(FunctionDef(0),
                          << <<Store(0, "x")>>, SubTree(inner, body) >>)>>) :
             outer \in { <<>>, << <<Store(0, "x")>> >> },
             inner \in { FunctionDef(0), ClassDef(0) },
             body \in ImportBodies({ <<>>, << <<Global(0, "x")>> >>,
                                     << <<Nonlocal(0, "x")>> >> }) }

\* The declarations tried in one scope: none; nonlocal x; nonlocal x, y;
\* nonlocal x, x; nonlocal print; global x with nonlocal x.
NonlocalOptions ==
    { <<>>,
      << <<Node("Nonlocal", 0, "", "", FALSE, <<"x">>)>> >>,
      << <<Node("Nonlocal", 0, "", "", FALSE, <<"x", "y">>)>> >>,
      << <<Node("Nonlocal", 0, "", "", FALSE, <<"x", "x">>)>> >>,
      << <<Node("Nonlocal", 0, "", "", FALSE, <<"print">>)>> >>,
      << <<Node("Global", 0, "", "", FALSE, <<"x">>)>>,
         <<Node("Nonlocal", 0, "", "", FALSE, <<"x">>)>> >> }

\* <x = ..>; def f(): <x = ..>; def f() or class C: <declarations>;
\* <x = ..>; def f(): <declarations>        in the shape of
\* test_nested_nonlocal
NonlocalPrograms ==
    { SubTree(Module,
        top \o
        << SubTree(FunctionDef(0),
             outer \o
             << SubTree(middle,
                  first \o inner \o <<SubTree(FunctionDef(0), second)>>) >>) >>) :
        top \in { <<>>, << <<Store(0, "x")>> >> },
        outer \in { <<>>, << <<Store(0, "x")>> >> },
        middle \in { FunctionDef(0), ClassDef(0) },
        first \in NonlocalOptions,
        inner \in { <<>>, << <<Store(0, "x")>> >> },
        second \in NonlocalOptions }

(***************************************************************************)
(* Namespaces and bindings.                                                *)
(***************************************************************************)
\* Namespace.__init__; tainted is the attribute get_binding assigns, which
\* __init__ does not create (FALSE: not set).
Namespace(cls, node, name) ==
    [cls |-> cls, node |-> node, name |-> name, parent_namespace |-> 0,
     bindings |-> <<>>, global_names |-> {}, nonlocal_names |-> {},
     children |-> <<>>, _tainted |-> FALSE, tainted |-> FALSE]

\* Namespace.is_tainted
is_tainted(namespace) == namespace._tainted

\* add_child without the link from the child to its parent.
add_child_unlinked(nss, parent, child) ==
    Append([nss EXCEPT ![parent].children = Append(@, Len(nss) + 1)], child)

\* Namespace.add_child, for a child that is appended to the namespace list.
add_child(nss, parent, child) ==
    LET c == Len(nss) + 1
    IN  Append([nss EXCEPT ![parent].children = Append(@, c)],
               [child EXCEPT !.parent_namespace = parent])

isModuleNamespace(nss, ns) == nss[ns].cls = "ModuleNamespace"

\* NameBinding(name) / BuiltinBinding(name, namespace)
NameBinding(name) ==
    [cls |-> "NameBinding", name |-> name, references |-> <<>>, allow_rename |-> TRUE]

BuiltinBinding(name) ==
    [cls |-> "BuiltinBinding", name |-> name, references |-> <<>>, allow_rename |-> TRUE]

\* Binding.disallow_rename
disallow_rename(binding) == [binding EXCEPT !.allow_rename = FALSE]

\* Binding.add_reference, on binding idx of namespace ns.
add_reference(nss, ns, idx, node) ==
    [nss EXCEPT ![ns].bindings[idx].references = Append(@, node)]

\* The first binding named name in a binding list, 0 when there is none.
find_binding(bindings, name) ==
    IF \E k \in DOMAIN bindings : bindings[k].name = name
    THEN CHOOSE k \in DOMAIN bindings :
            /\ bindings[k].name = name
            /\ \A j \in 1..(k - 1) : bindings[j].name # name
    ELSE 0

(***************************************************************************)
(* util.py                                                                 *)
(***************************************************************************)
get_global_namespace(ns, nss) ==
    IF isModuleNamespace(nss, ns) THEN ns
    ELSE get_global_namespace(nss[ns].parent_namespace, nss)

\* get_nonlocal_namespace without the walk past class namespaces.
get_nonlocal_namespace_no_skip(ns, nss) == nss[ns].parent_namespace

get_nonlocal_namespace(ns, nss) ==
    IF nss[nss[ns].parent_namespace].cls = "ClassNamespace"
    THEN get_nonlocal_namespace(nss[ns].parent_namespace, nss)
    ELSE nss[ns].parent_namespace

\* Any single bare-name decorator taken for classmethod.
is_classmethod_only_any_name(t, decorator_list) ==
    /\ Len(decorator_list) = 1
    /\ t[decorator_list[1]].kind = "Name"

\* util.py:86-90: the decorator list is the bare name classmethod.
is_classmethod_only(t, decorator_list) ==
    /\ Len(decorator_list) = 1
    /\ t[decorator_list[1]].kind = "Name"
    /\ t[decorator_list[1]].name = "classmethod"

\* util.py:82: node is func_node.args.args[0].
is_first_arg(t, func_args, node) ==
    /\ Len(field_nodes(t, func_args, "args")) > 0
    /\ node = field_nodes(t, func_args, "args")[1]

\* Only *args taken for a starred parameter.
is_star_arg_vararg_only(t, func_args, node) ==
    node \in Range(field_nodes(t, func_args, "vararg"))

\* util.py:94: func_node.args.vararg is node or func_node.args.kwarg is node.
is_star_arg(t, func_args, node) ==
    node \in Range(field_nodes(t, func_args, "vararg"))
                \cup Range(field_nodes(t, func_args, "kwarg"))

arg_rename_in_place(node, t, nsof, nss) ==
    LET func_node == nss[nsof[node]].node
        func_args == Head(field_nodes(t, func_node, "args"))
        decorator_list == field_nodes(t, func_node, "decorator_list")
    IN  IF t[func_node].kind = "comprehension" THEN TRUE
        ELSE IF /\ nss[nsof[func_node]].cls = "ClassNamespace"
                /\ t[func_node].kind # "Lambda"
                /\ is_first_arg(t, func_args, node)
                /\ \/ Len(decorator_list) = 0
                   \/ is_classmethod_only(t, decorator_list)
        THEN TRUE
        ELSE IF is_star_arg(t, func_args, node)
        THEN TRUE
        ELSE node \in Range(field_nodes(t, func_args, "posonlyargs"))

\* util.py:82,94,98: func_node.args is read; of the nodes that introduce a
\* namespace only ast.FunctionDef and ast.Lambda have the attribute.
has_args(t, func_node) == t[func_node].kind \in {"FunctionDef", "Lambda"}

\* arg_rename_in_place(node) as the caller sees it: the value returned, or
\* the exception the read of func_node.args raises.
arg_rename_in_place_outcome(node, t, nsof, nss) ==
    LET func_node == nss[nsof[node]].node
    IN  IF t[func_node].kind = "comprehension" THEN "True"
        ELSE IF ~has_args(t, func_node) THEN "AttributeError"
        ELSE IF arg_rename_in_place(node, t, nsof, nss) THEN "True"
        ELSE "False"

\* python_minifier.util.is_ast_node: the node is of one of the kinds.
is_ast_node(n, kinds) == n.kind \in kinds

\* The statements of a suite, as far as insert looks at them: from m import
\* .. with its module and relative level, an expression statement with its
\* value, an assignment with the name it assigns.
ImportFrom(module, level) == [kind |-> "ImportFrom", module |-> module, level |-> level]
Expr(value) == [kind |-> "Expr", value |-> [kind |-> value]]
AssignTo(name) == [kind |-> "Assign", name |-> name]

\* from __future__ import .., from .__future__ import .., from m import ..,
\* "doc", b"doc", f(), x = ..
Statements ==
    { ImportFrom("__future__", 0), ImportFrom("__future__", 1), ImportFrom("m", 0),
      Expr("Str"), Expr("Bytes"), Expr("Call"), AssignTo("x") }

\* Every suite of at most MaxSuite statements.
Suites == UNION { [1..k -> Statements] : k \in 0..MaxSuite }

\* The nodes inserted: A = .., B = ..
NewNodes == { AssignTo("A"), AssignTo("B") }

\* Only a from-__future__ import left in front of the new node.
stays_in_front_future_only(node) ==
    node.kind = "ImportFrom" /\ node.module = "__future__"

\* util.py:119-121: the statements insert leaves in front of the new node.
stays_in_front(node) ==
    \/ node.kind = "ImportFrom" /\ node.module = "__future__"
    \/ node.kind = "Expr" /\ is_ast_node(node.value, {"Str"})

\* util.py:115-131: what the generator yields from the rest of the suite.
insert_from(suite, new_node, inserted) ==
    IF suite = <<>>
    THEN IF inserted THEN <<>> ELSE <<new_node>>
    ELSE IF ~inserted /\ ~stays_in_front(Head(suite))
    THEN <<new_node, Head(suite)>> \o insert_from(Tail(suite), new_node, TRUE)
    ELSE <<Head(suite)>> \o insert_from(Tail(suite), new_node, inserted)

\* util.py:104-131
insert(suite, new_node) == insert_from(suite, new_node, FALSE)

(***************************************************************************)
(* create_namespaces.py                                                    *)
(***************************************************************************)
\* The state threaded through the traversal: the namespace list and every
\* node's namespace attribute.
\* for arg in ...: create_child_namespaces(arg, function_namespace), then
\* create_child_namespaces(arg.annotation, parent_namespace).
assign_args(args, parent_namespace, function_namespace, st) ==
    IF args = <<>> THEN st
    ELSE assign_args(Tail(args), parent_namespace, function_namespace,
            create_body(field_nodes(st.tree, Head(args), "annotation"), parent_namespace,
                        create_child_namespaces(Head(args), function_namespace, st)))

\* Default values taken for part of the function's own namespace.
defaults_namespace_inside(parent_namespace, function_namespace) == function_namespace

\* create_namespaces.py:41-46: the namespace the default values are in.
defaults_namespace(parent_namespace, function_namespace) == parent_namespace

assign_arguments_to_namespace(args, parent_namespace, function_namespace, st) ==
    LET t == st.tree
        st0 == [st EXCEPT !.nsof[args] = function_namespace]
        st1 == assign_args(field_nodes(t, args, "posonlyargs") \o field_nodes(t, args, "args"),
                           parent_namespace, function_namespace, st0)
        st2 == assign_args(field_nodes(t, args, "kwonlyargs"),
                           parent_namespace, function_namespace, st1)
        st3 == create_body(field_nodes(t, args, "kw_defaults"),
                           defaults_namespace(parent_namespace, function_namespace), st2)
        st4 == create_body(field_nodes(t, args, "defaults"),
                           defaults_namespace(parent_namespace, function_namespace), st3)
        st5 == create_body(field_nodes(t, args, "vararg"), function_namespace, st4)
    IN  create_body(field_nodes(t, args, "kwarg"), function_namespace, st5)

\* The iterables of all clauses evaluated where the first one is.
next_iter_namespace_outside(iter_namespace, comprehension_namespace) == iter_namespace

\* create_namespaces.py:83: iter_namespace = comprehension_namespace
next_iter_namespace(iter_namespace, comprehension_namespace) == comprehension_namespace

\* for generator in node.generators: ...
create_generators(generators, iter_namespace, comprehension_namespace, st) ==
    IF generators = <<>> THEN st
    ELSE LET g == Head(generators)
             st0 == [st EXCEPT !.nsof[g] = comprehension_namespace]
             st1 == create_body(field_nodes(st.tree, g, "target"), comprehension_namespace, st0)
             st2 == create_body(field_nodes(st.tree, g, "iter"), iter_namespace, st1)
             st3 == create_body(field_nodes(st.tree, g, "ifs"), comprehension_namespace, st2)
         IN  create_generators(Tail(generators),
                               next_iter_namespace(iter_namespace, comprehension_namespace),
                               comprehension_namespace, st3)

create_comprehension_namespace(node, parent_namespace, st) ==
    LET t == st.tree
        nss == add_child(st.nss, parent_namespace,
                         Namespace("FunctionNamespace", node, t[node].kind))
        comprehension_namespace == Len(nss)
        st1 == create_body(field_nodes(t, node, "elt") \o field_nodes(t, node, "key")
                               \o field_nodes(t, node, "value"),
                           comprehension_namespace, [st EXCEPT !.nss = nss])
    IN  create_generators(field_nodes(t, node, "generators"), parent_namespace,
                          comprehension_namespace, st1)

\* The annotation namespace and the definition's namespace both added to
\* the parent, side by side.
with_annotation_namespace_beside(cls, node, parent_namespace, st) ==
    LET name == st.tree[node].name
        nss1 == add_child(st.nss, parent_namespace,
                          Namespace("AnnotationNamespace", node, name))
        annotation_namespace == Len(nss1)
        nss2 == add_child(nss1, parent_namespace, Namespace(cls, node, name))
    IN  create_body(field_nodes(st.tree, node, "type_params"), annotation_namespace,
                    [st EXCEPT !.nss = nss2])

\* The namespaces a definition with type parameters adds: the annotation
\* namespace under the parent and the definition's namespace under it.
with_annotation_namespace(cls, node, parent_namespace, st) ==
    LET name == st.tree[node].name
        nss1 == add_child(st.nss, parent_namespace,
                          Namespace("AnnotationNamespace", node, name))
        annotation_namespace == Len(nss1)
        nss2 == add_child(nss1, annotation_namespace, Namespace(cls, node, name))
    IN  create_body(field_nodes(st.tree, node, "type_params"), annotation_namespace,
                    [st EXCEPT !.nss = nss2])

\* The place in the namespace list of the namespace of definition node,
\* created from state st: after the annotation namespace when there is one.
definition_namespace(node, st) ==
    IF field_nodes(st.tree, node, "type_params") # <<>>
    THEN Len(st.nss) + 2
    ELSE Len(st.nss) + 1

\* The namespace a definition without type parameters adds.
without_annotation_namespace(cls, node, parent_namespace, st) ==
    [st EXCEPT !.nss = add_child(@, parent_namespace,
                                 Namespace(cls, node, st.tree[node].name))]

create_functiondef_namespace(node, parent_namespace, st) ==
    LET t == st.tree
        st1 == IF field_nodes(t, node, "type_params") # <<>>
               THEN with_annotation_namespace("FunctionNamespace", node, parent_namespace, st)
               ELSE without_annotation_namespace("FunctionNamespace", node, parent_namespace, st)
        function_namespace == definition_namespace(node, st)
        st2 == IF field_nodes(t, node, "args") # <<>>
               THEN assign_arguments_to_namespace(Head(field_nodes(t, node, "args")),
                                                  parent_namespace, function_namespace, st1)
               ELSE st1
        st3 == create_body(field_nodes(t, node, "body"), function_namespace, st2)
        st4 == create_body(field_nodes(t, node, "decorator_list"), parent_namespace, st3)
    IN  create_body(field_nodes(t, node, "returns"), parent_namespace, st4)

create_lambda_namespace(node, parent_namespace, st) ==
    LET t == st.tree
        nss == add_child(st.nss, parent_namespace,
                         Namespace("FunctionNamespace", node, "Lambda"))
        function_namespace == Len(nss)
        st1 == assign_arguments_to_namespace(Head(field_nodes(t, node, "args")),
                                             parent_namespace, function_namespace,
                                             [st EXCEPT !.nss = nss])
    IN  create_body(field_nodes(t, node, "body"), function_namespace, st1)

create_class_namespace(node, parent_namespace, st) ==
    LET t == st.tree
        st1 == IF field_nodes(t, node, "type_params") # <<>>
               THEN with_annotation_namespace("ClassNamespace", node, parent_namespace, st)
               ELSE without_annotation_namespace("ClassNamespace", node, parent_namespace, st)
        class_namespace == definition_namespace(node, st)
        st2 == create_body(field_nodes(t, node, "bases") \o field_nodes(t, node, "keywords"),
                           parent_namespace, st1)
        st3 == create_body(field_nodes(t, node, "body"), class_namespace, st2)
    IN  create_body(field_nodes(t, node, "decorator_list"), parent_namespace, st3)

\* The Name branch without the AugAssign case.
class_free_name_load_only(n, parent_namespace, nss) ==
    IF nss[parent_namespace].cls = "ClassNamespace" /\ n.ctx = "Load"
    THEN [nss EXCEPT ![parent_namespace].nonlocal_names = @ \cup {n.name}]
    ELSE nss

\* The Name branch taking every Store for a read-modify-write.
class_free_name_any_store(n, parent_namespace, nss) ==
    IF nss[parent_namespace].cls = "ClassNamespace"
    THEN [nss EXCEPT ![parent_namespace].nonlocal_names = @ \cup {n.name}]
    ELSE nss

\* The Name branch of create_child_namespaces.
class_free_name(n, parent_namespace, nss) ==
    IF nss[parent_namespace].cls = "ClassNamespace"
    THEN IF n.ctx = "Load"
         THEN [nss EXCEPT ![parent_namespace].nonlocal_names = @ \cup {n.name}]
         ELSE IF n.ctx = "Store" /\ n.aug
              THEN [nss EXCEPT ![parent_namespace].nonlocal_names = @ \cup {n.name}]
              ELSE nss
    ELSE nss

\* The declared names recorded in the module namespace.
declaring_namespace_global(parent_namespace, nss) ==
    get_global_namespace(parent_namespace, nss)

\* create_namespaces.py:218,221: the namespace whose global_names or
\* nonlocal_names a declaration updates.
declaring_namespace(parent_namespace, nss) == parent_namespace

create_child_namespaces(node, parent_namespace, st) ==
    LET n == st.tree[node]
        st1 == [st EXCEPT !.nsof[node] = parent_namespace]
    IN  CASE n.kind = "FunctionDef" ->
                create_functiondef_namespace(node, parent_namespace, st1)
          [] n.kind \in {"GeneratorExp", "DictComp"} ->
                create_comprehension_namespace(node, parent_namespace, st1)
          [] n.kind = "Lambda" ->
                create_lambda_namespace(node, parent_namespace, st1)
          [] n.kind = "ClassDef" ->
                create_class_namespace(node, parent_namespace, st1)
          [] n.kind = "Global" ->
                [st1 EXCEPT !.nss[declaring_namespace(parent_namespace, st.nss)].global_names =
                                @ \cup Range(n.names)]
          [] n.kind = "Nonlocal" ->
                [st1 EXCEPT !.nss[declaring_namespace(parent_namespace, st.nss)].nonlocal_names =
                                @ \cup Range(n.names)]
          [] n.kind = "Name" ->
                [st1 EXCEPT !.nss = class_free_name(n, parent_namespace, @)]
          [] OTHER ->
                create_body(iter_child_nodes(st.tree, node), parent_namespace, st1)

\* for node in ...: create_child_namespaces(node, parent_namespace)
create_body(nodes, parent_namespace, st) ==
    IF nodes = <<>> THEN st
    ELSE create_body(Tail(nodes), parent_namespace,
                     create_child_namespaces(Head(nodes), parent_namespace, st))

create_all_namespaces(t) ==
    create_child_namespaces(1, 1,
        [tree |-> t,
         nss |-> <<Namespace("ModuleNamespace", 1, "")>>,
         nsof |-> [k \in 1..Len(t) |-> 0]])

(***************************************************************************)
(* Import paths (resolve_names.py:82-88).                                  *)
(***************************************************************************)
\* The string made of the characters.
join(chars) == IF chars = <<>> THEN "" ELSE Head(chars) \o join(Tail(chars))

\* resolve_names.py:82: node.name.split('.')[0]
root_module(path) ==
    LET dots == { k \in DOMAIN path : path[k] = "." }
    IN  IF dots = {} THEN join(path)
        ELSE join(SubSeq(path, 1, (CHOOSE k \in dots : \A j \in dots : k <= j) - 1))

\* resolve_names.py:87: '.' in node.name
is_dotted(path) == \E k \in DOMAIN path : path[k] = "."

\* The dotted-path rule applied to every import without an alias.
disallow_if_dotted_always(path, binding) == disallow_rename(binding)

\* resolve_names.py:87-88
disallow_if_dotted(path, binding) ==
    IF is_dotted(path) THEN disallow_rename(binding) ELSE binding

(***************************************************************************)
(* bind_names.py                                                           *)
(***************************************************************************)
\* NameBinder.get_binding: the binding of name local to namespace ns (the
\* module's for a declared-global name), created at its first occurrence.
\* The result is the new namespace list and the place of the binding.
bind_get_binding(name, ns, nss) ==
    LET target == IF name \in nss[ns].global_names /\ ~isModuleNamespace(nss, ns)
                  THEN get_global_namespace(ns, nss)
                  ELSE ns
        found == find_binding(nss[target].bindings, name)
    IN  IF found # 0
        THEN [nss |-> nss, ns |-> target, idx |-> found]
        ELSE [nss |-> [nss EXCEPT ![target].bindings = Append(@, NameBinding(name))],
              ns |-> target,
              idx |-> Len(nss[target].bindings) + 1]

\* get_binding(name, namespace).add_reference(node) of the binder.
bind_reference(name, ns, nss, node) ==
    LET b == bind_get_binding(name, ns, nss)
    IN  add_reference(b.nss, b.ns, b.idx, node)

\* visit_Global: every listed name is bound in the module namespace.
bind_global(names, ns, nss, node) ==
    IF names = <<>> THEN nss
    ELSE bind_global(Tail(names), ns,
                     LET b == bind_get_binding(Head(names), get_global_namespace(ns, nss), nss)
                     IN  add_reference(b.nss, b.ns, b.idx, node),
                     node)

\* visit_arg: the parameter is bound in its namespace; a parameter that
\* may not be renamed in place gets a binding that may not be renamed.
bind_arg(name, ns, nss, node, t, nsof) ==
    LET b == bind_get_binding(name, ns, nss)
        nss1 == add_reference(b.nss, b.ns, b.idx, node)
    IN  IF arg_rename_in_place(node, t, nsof, nss)
        THEN nss1
        ELSE [nss1 EXCEPT ![b.ns].bindings[b.idx] = disallow_rename(@)]

\* visit_alias: the alias, or the first segment of the path, is bound in
\* the namespace unless declared nonlocal there; the binding of a dotted
\* path without alias has renaming disallowed.
bind_alias(n, ns, nss, node) ==
    IF n.name # ""
    THEN IF n.name \notin nss[ns].nonlocal_names
         THEN bind_reference(n.name, ns, nss, node)
         ELSE nss
    ELSE IF root_module(n.names) \notin nss[ns].nonlocal_names
         THEN LET b == bind_get_binding(root_module(n.names), ns, nss)
                  nss1 == add_reference(b.nss, b.ns, b.idx, node)
              IN  [nss1 EXCEPT ![b.ns].bindings[b.idx] = disallow_if_dotted(n.names, @)]
         ELSE nss

\* What bind_names does at one node of its pre-order traversal.
bind_names(node, t, nsof, nss) ==
    LET n == t[node]
        ns == nsof[node]
    IN  CASE n.kind = "Name" ->
                IF n.ctx = "Store" /\ n.name \notin nss[ns].nonlocal_names
                THEN bind_reference(n.name, ns, nss, node)
                ELSE nss
          [] n.kind \in {"FunctionDef", "ClassDef"} ->
                IF n.name \notin nss[ns].nonlocal_names
                THEN bind_reference(n.name, ns, nss, node)
                ELSE nss
          [] n.kind = "Global" -> bind_global(n.names, ns, nss, node)
          [] n.kind = "arg" -> bind_arg(n.name, ns, nss, node, t, nsof)
          [] n.kind = "alias" -> bind_alias(n, ns, nss, node)
          [] n.kind = "TypeVar" ->
                IF n.name \notin nss[ns].nonlocal_names
                THEN bind_reference(n.name, ns, nss, node)
                ELSE nss
          [] OTHER -> nss

(***************************************************************************)
(* resolve_names.py                                                        *)
(***************************************************************************)
\* The global test made only for names that are not declared nonlocal.
is_declared_global_after_nonlocal(name, ns, nss) ==
    /\ name \in nss[ns].global_names
    /\ name \notin nss[ns].nonlocal_names
    /\ ~isModuleNamespace(nss, ns)

\* resolve_names.py:22
is_declared_global(name, ns, nss) ==
    name \in nss[ns].global_names /\ ~isModuleNamespace(nss, ns)

\* resolve_names.py:24
is_declared_nonlocal(name, ns, nss) ==
    name \in nss[ns].nonlocal_names /\ ~isModuleNamespace(nss, ns)

\* The local search that passes over builtin bindings.
lookup_local_names_only(name, ns, nss) ==
    find_binding(SelectSeq(nss[ns].bindings, LAMBDA b : b.cls = "NameBinding"), name)

\* The local search that gives up after the first binding of the list.
lookup_local_first_only(name, ns, nss) ==
    IF nss[ns].bindings # <<>> /\ nss[ns].bindings[1].name = name THEN 1 ELSE 0

\* resolve_names.py:28-30: the binding named name local to ns, 0 for none.
lookup_local(name, ns, nss) == find_binding(nss[ns].bindings, name)

\* resolve_names.py:40-41: the assignment namespace.tainted = True.
taint_for_builtin(name, namespace) ==
    IF name \in introspecting
    THEN [namespace EXCEPT !.tainted = TRUE]
    ELSE namespace

\* resolve_names.py:39-45: the builtin binding made at the module namespace.
create_builtin_binding(name, ns, nss) ==
    [nss EXCEPT ![ns] = [taint_for_builtin(name, @) EXCEPT
                            !.bindings = Append(@, BuiltinBinding(name))]]

\* The binding for a name nothing defines, left renamable.
create_unresolved_binding_renamable(name, ns, nss) ==
    [nss EXCEPT ![ns].bindings = Append(@, NameBinding(name))]

\* resolve_names.py:47-53: the binding made for a name nothing defines.
create_unresolved_binding(name, ns, nss) ==
    [nss EXCEPT ![ns].bindings = Append(@, disallow_rename(NameBinding(name)))]

\* The result is the new namespace list and the place of the binding.
get_binding(name, ns, nss) ==
    IF is_declared_global(name, ns, nss)
    THEN get_binding(name, get_global_namespace(ns, nss), nss)
    ELSE IF is_declared_nonlocal(name, ns, nss)
    THEN get_binding(name, get_nonlocal_namespace(ns, nss), nss)
    ELSE IF lookup_local(name, ns, nss) # 0
    THEN [nss |-> nss, ns |-> ns, idx |-> lookup_local(name, ns, nss)]
    ELSE IF ~isModuleNamespace(nss, ns)
    THEN get_binding(name, get_nonlocal_namespace(ns, nss), nss)
    ELSE IF name \in builtins
    THEN [nss |-> create_builtin_binding(name, ns, nss), ns |-> ns,
          idx |-> Len(nss[ns].bindings) + 1]
    ELSE [nss |-> create_unresolved_binding(name, ns, nss), ns |-> ns,
          idx |-> Len(nss[ns].bindings) + 1]

\* The namespaces get_binding is called with in the course of
\* get_binding(name, ns), in the order of the calls.
get_binding_calls(name, ns, nss) ==
    IF is_declared_global(name, ns, nss)
    THEN <<ns>> \o get_binding_calls(name, get_global_namespace(ns, nss), nss)
    ELSE IF is_declared_nonlocal(name, ns, nss)
    THEN <<ns>> \o get_binding_calls(name, get_nonlocal_namespace(ns, nss), nss)
    ELSE IF lookup_local(name, ns, nss) # 0
    THEN <<ns>>
    ELSE IF ~isModuleNamespace(nss, ns)
    THEN <<ns>> \o get_binding_calls(name, get_nonlocal_namespace(ns, nss), nss)
    ELSE <<ns>>

\* The reference put in front of the binding's reference list.
resolve_reference_in_front(name, ns, nss, node) ==
    LET b == get_binding(name, ns, nss)
    IN  [b.nss EXCEPT ![b.ns].bindings[b.idx].references = <<node>> \o @]

\* get_binding(name, namespace).add_reference(node)
resolve_reference(name, ns, nss, node) ==
    LET b == get_binding(name, ns, nss)
    IN  add_reference(b.nss, b.ns, b.idx, node)

\* Only the first listed name resolved.
resolve_nonlocal_first_name(names, ns, nss, node) ==
    IF names = <<>> THEN nss
    ELSE resolve_reference(Head(names), ns, nss, node)

\* resolve_names.py:94-96
resolve_nonlocal(names, ns, nss, node) ==
    IF names = <<>> THEN nss
    ELSE resolve_nonlocal(Tail(names), ns,
                          resolve_reference(Head(names), ns, nss, node), node)

\* resolve_names.py:74-88: the ast.alias branch.
resolve_alias(n, ns, nss, node) ==
    IF n.name # ""
    THEN IF n.name \in nss[ns].nonlocal_names
         THEN resolve_reference(n.name, ns, nss, node)
         ELSE nss
    ELSE IF root_module(n.names) \in nss[ns].nonlocal_names
         THEN LET b == get_binding(root_module(n.names), ns, nss)
                  nss1 == add_reference(b.nss, b.ns, b.idx, node)
              IN  [nss1 EXCEPT ![b.ns].bindings[b.idx] = disallow_if_dotted(n.names, @)]
         ELSE nss

\* What resolve_names does at one node, before it recurses into the children.
resolve_names(node, t, nsof, nss) ==
    LET n == t[node]
        ns == nsof[node]
    IN  IF n.kind = "Name" /\ n.ctx = "Load"
        THEN resolve_reference(n.name, ns, nss, node)
        ELSE IF n.kind = "Name" /\ n.name \in nss[ns].nonlocal_names
        THEN resolve_reference(n.name, ns, nss, node)
        ELSE IF n.kind = "ClassDef" /\ n.name \in nss[ns].nonlocal_names
        THEN resolve_reference(n.name, ns, nss, node)
        ELSE IF n.kind = "FunctionDef" /\ n.name \in nss[ns].nonlocal_names
        THEN resolve_reference(n.name, ns, nss, node)
        ELSE IF n.kind = "alias"
        THEN resolve_alias(n, ns, nss, node)
        ELSE IF n.kind = "Nonlocal"
        THEN resolve_nonlocal(n.names, ns, nss, node)
        ELSE IF n.kind = "TypeVar" /\ n.name \in nss[ns].nonlocal_names
        THEN resolve_reference(n.name, ns, nss, node)
        ELSE nss

(***************************************************************************)
(* util.py: rename options                                                 *)
(***************************************************************************)
\* Only a plain assignment whose first target is __all__ taken for one.
is_assign_all_node_first_target(t, node) ==
    /\ t[node].kind = "Assign"
    /\ t[Head(field_nodes(t, node, "targets"))].kind = "Name"
    /\ t[Head(field_nodes(t, node, "targets"))].name = "__all__"

\* util.py:137-147
is_assign_all_node(t, node) ==
    IF t[node].kind = "Assign"
    THEN \E name \in Range(field_nodes(t, node, "targets")) :
            t[name].kind = "Name" /\ t[name].name = "__all__"
    ELSE IF is_ast_node(t[node], {"AugAssign", "AnnAssign"})
    THEN \E target \in Range(field_nodes(t, node, "target")) :
            t[target].kind = "Name" /\ t[target].name = "__all__"
    ELSE FALSE

\* util.py:149-160, as the set of the names collected: the string elements
\* of the list literals assigned to __all__ by the module's own statements.
find__all__(t) ==
    { t[el].name :
        el \in { e \in DOMAIN t :
                   /\ is_ast_node(t[e], {"Str"})
                   /\ t[e].field = "elts"
                   /\ t[t[e].parent].kind = "List"
                   /\ t[t[e].parent].field = "value"
                   /\ t[t[e].parent].parent \in Range(iter_child_nodes(t, 1))
                   /\ is_assign_all_node(t, t[t[e].parent].parent) } }

\* The bindings that are not picked made renamable again.
disallow_where_resetting(bindings, all, preserve) ==
    [k \in DOMAIN bindings |->
        [bindings[k] EXCEPT !.allow_rename = ~(all \/ bindings[k].name \in preserve)]]

\* util.py:179-181, 200-202
disallow_where(bindings, all, preserve) ==
    [k \in DOMAIN bindings |->
        IF all \/ bindings[k].name \in preserve
        THEN disallow_rename(bindings[k])
        ELSE bindings[k]]

apply_global_rename_options(nss, t, rename_globals, preserve_globals) ==
    [nss EXCEPT ![1].bindings =
        disallow_where(@, rename_globals = FALSE, preserve_globals \cup find__all__(t))]

apply_local_rename_options(ns, nss, rename_locals, preserve_locals) ==
    LET nss1 == IF ~isModuleNamespace(nss, ns)
                THEN [nss EXCEPT ![ns].bindings =
                        disallow_where(@, rename_locals = FALSE, preserve_locals)]
                ELSE nss
    IN  apply_local_children(nss1[ns].children, nss1, rename_locals, preserve_locals)

\* The options applied to the child namespaces without going into theirs.
apply_local_children_no_descent(children, nss, rename_locals, preserve_locals) ==
    [s \in DOMAIN nss |->
        IF s \in Range(children)
        THEN [nss[s] EXCEPT !.bindings =
                disallow_where(@, rename_locals = FALSE, preserve_locals)]
        ELSE nss[s]]

apply_local_children(children, nss, rename_locals, preserve_locals) ==
    IF children = <<>> THEN nss
    ELSE apply_local_children(Tail(children),
            apply_local_rename_options(Head(children), nss, rename_locals, preserve_locals),
            rename_locals, preserve_locals)

\* The preserve_globals / preserve_locals option values tried.
PreserveOptions == {{}, FocusNames}

(***************************************************************************)
(* suite_transformer.py: NodeVisitor.visit_Constant                        *)
(***************************************************************************)
\* The value of an ast.Constant: its type and, for the numeric types, its
\* real and imaginary part.
Value(type, re, im) == [type |-> type, re |-> re, im |-> im]

None == Value("NoneType", 0, 0)
True == Value("bool", 1, 0)
False == Value("bool", 0, 0)
Ellipsis == Value("ellipsis", 0, 0)

\* The values tried: None, True, False, ..., the ints and floats 0 to
\* MaxNumber, the complex numbers 0j, 1j, 1+0j, 1+1j, and a str, a bytes,
\* a tuple and a frozenset value.
Values ==
    {None, True, False, Ellipsis}
    \cup { Value(type, re, 0) : type \in {"int", "float"}, re \in 0..MaxNumber }
    \cup { Value("complex", re, im) : re \in 0..1, im \in 0..1 }
    \cup { Value(type, 0, 0) : type \in {"str", "bytes", "tuple", "frozenset"} }

Constant(value) == [kind |-> "Constant", value |-> value]

\* The types whose values compare by number: bool is a subclass of int,
\* and int, float and complex values are equal when they are the same
\* number.
numbers == {"bool", "int", "float", "complex"}

\* a == b
eq(a, b) ==
    IF a.type \in numbers /\ b.type \in numbers
    THEN a.re = b.re /\ a.im = b.im
    ELSE a = b

\* a in list
contains(list, a) == \E k \in DOMAIN list : eq(a, list[k])

\* isinstance(value, types)
isinstance(value, types) ==
    (IF value.type = "bool" THEN {"bool", "int"} ELSE {value.type}) \cap types # {}

\* The visit methods visit_Constant chooses between.
VisitMethods ==
    {"visit_NameConstant", "visit_Num", "visit_Str", "visit_Bytes", "visit_Ellipsis"}

\* getattr(self, method, default) on a visitor that defines the methods in
\* defined.
getattr(defined, method, default) == IF method \in defined THEN method ELSE default

\* suite_transformer.py:32-57, as the visitor called ("RuntimeError" when
\* the exception is raised) on a visitor defining the methods in defined.
visit_Constant(defined, node) ==
    LET method ==
            IF contains(<<None, True, False>>, node.value) THEN "visit_NameConstant"
            ELSE IF isinstance(node.value, {"int", "float", "complex"}) THEN "visit_Num"
            ELSE IF isinstance(node.value, {"str"}) THEN "visit_Str"
            ELSE IF isinstance(node.value, {"bytes"}) THEN "visit_Bytes"
            ELSE IF eq(node.value, Ellipsis) THEN "visit_Ellipsis"
            ELSE "RuntimeError"
    IN  IF method = "RuntimeError" THEN "RuntimeError"
        ELSE getattr(defined, method, "generic_visit")

\* The lists of Constant nodes visited.
ConstantLists ==
    UNION { [1..n -> { Constant(value) : value \in Values }] : n \in 1..MaxConstants }

(***************************************************************************)
(* The pipeline: create_all_namespaces, bind_names, resolve_names, then    *)
(* the rename options in any order, any number of times.                   *)
(***************************************************************************)
Init ==
    /\ \E p \in Programs : tree \in Extend(p[1], p[2], p[3])
    /\ node_namespace = [k \in 1..Len(tree) |-> 0]
    /\ namespaces = <<>>
    /\ pc = "parsed"
    /\ pos = 1

CreateAllNamespaces ==
    /\ pc = "parsed"
    /\ LET st == create_all_namespaces(tree)
       IN  /\ namespaces' = st.nss
           /\ node_namespace' = st.nsof
    /\ pc' = "bind"
    /\ pos' = 1
    /\ UNCHANGED tree

BindNames ==
    /\ pc = "bind"
    /\ namespaces' = bind_names(pos, tree, node_namespace, namespaces)
    /\ pos' = IF pos = Len(tree) THEN 1 ELSE pos + 1
    /\ pc' = IF pos = Len(tree) THEN "resolve" ELSE "bind"
    /\ UNCHANGED <<tree, node_namespace>>

ResolveNames ==
    /\ pc = "resolve"
    /\ namespaces' = resolve_names(pos, tree, node_namespace, namespaces)
    /\ pos' = IF pos = Len(tree) THEN 1 ELSE pos + 1
    /\ pc' = IF pos = Len(tree) THEN "done" ELSE "resolve"
    /\ UNCHANGED <<tree, node_namespace>>

ApplyGlobalRenameOptions ==
    /\ pc = "done"
    /\ \E rename_globals \in BOOLEAN, preserve_globals \in PreserveOptions :
          namespaces' = apply_global_rename_options(namespaces, tree,
                                                    rename_globals, preserve_globals)
    /\ UNCHANGED <<tree, node_namespace, pc, pos>>

ApplyLocalRenameOptions ==
    /\ pc = "done"
    /\ \E rename_locals \in BOOLEAN, preserve_locals \in PreserveOptions :
          namespaces' = apply_local_rename_options(1, namespaces,
                                                   rename_locals, preserve_locals)
    /\ UNCHANGED <<tree, node_namespace, pc, pos>>

\* The pipeline on the inputs with parameters, type parameters, lambdas,
\* comprehensions and declarations of several names.
InitDefinitions ==
    /\ tree \in AnnotatedPrograms \cup ClassAndLambdaPrograms \cup ParameterPrograms
                    \cup ComprehensionPrograms \cup DeclarationPrograms
    /\ node_namespace = [k \in 1..Len(tree) |-> 0]
    /\ namespaces = <<>>
    /\ pc = "parsed"
    /\ pos = 1

\* SuiteTransformer.add_child(child, parent): add_parent(child, parent),
\* then create_child_namespaces(child, parent.namespace).
SuiteTransformer_add_child(child, parent, t, nsof, nss) ==
    create_child_namespaces(Len(t) + 1, nsof[parent],
        [tree |-> Graft(t, parent, child),
         nss |-> nss,
         nsof |-> [k \in 1..(Len(t) + Len(child)) |->
                     IF k <= Len(t) THEN nsof[k] ELSE 0]])

AddChild ==
    /\ pc = "bind" /\ pos = 1
    /\ \E parent \in DOMAIN tree, child \in AddedTrees :
          /\ Len(tree) + Len(child) <= MaxNodes
          /\ LET st == SuiteTransformer_add_child(child, parent, tree,
                                                 node_namespace, namespaces)
             IN  /\ tree' = st.tree
                 /\ namespaces' = st.nss
                 /\ node_namespace' = st.nsof
    /\ UNCHANGED <<pc, pos>>

\* The scope tree after create_all_namespaces and later add_child calls.
InitTransform ==
    /\ tree \in TransformPrograms
    /\ node_namespace = [k \in 1..Len(tree) |-> 0]
    /\ namespaces = <<>>
    /\ pc = "parsed"
    /\ pos = 1

NextTransform ==
    \/ CreateAllNamespaces
    \/ AddChild

SpecTransform == InitTransform /\ [][NextTransform]_vars

Next ==
    \/ CreateAllNamespaces
    \/ BindNames
    \/ ResolveNames
    \/ ApplyGlobalRenameOptions
    \/ ApplyLocalRenameOptions

Spec == Init /\ [][Next]_vars

SpecDefinitions == InitDefinitions /\ [][Next]_vars

\* The pipeline on the inputs with assignments to __all__ and nested scopes.
InitOptions ==
    /\ tree \in OptionPrograms
    /\ node_namespace = [k \in 1..Len(tree) |-> 0]
    /\ namespaces = <<>>
    /\ pc = "parsed"
    /\ pos = 1

SpecOptions == InitOptions /\ [][Next]_vars

\* The pipeline on the inputs with import statements.
InitImports ==
    /\ tree \in ImportPrograms
    /\ node_namespace = [k \in 1..Len(tree) |-> 0]
    /\ namespaces = <<>>
    /\ pc = "parsed"
    /\ pos = 1

SpecImports == InitImports /\ [][Next]_vars

\* The pipeline on the inputs with nonlocal declarations in nested scopes.
InitNonlocal ==
    /\ tree \in NonlocalPrograms
    /\ node_namespace = [k \in 1..Len(tree) |-> 0]
    /\ namespaces = <<>>
    /\ pc = "parsed"
    /\ pos = 1

SpecNonlocal == InitNonlocal /\ [][Next]_vars

\* The pipeline on the inputs with annotated *args and **kwargs parameters.
InitVariadic ==
    /\ tree \in VariadicPrograms
    /\ node_namespace = [k \in 1..Len(tree) |-> 0]
    /\ namespaces = <<>>
    /\ pc = "parsed"
    /\ pos = 1

SpecVariadic == InitVariadic /\ [][Next]_vars

\* A suite, and the nodes insert puts into it one after the other.
InitInsert ==
    /\ tree \in Suites
    /\ node_namespace = <<>>
    /\ namespaces = <<>>
    /\ pc = "suite"
    /\ pos = 1

Insert ==
    /\ pc \in {"suite", "inserted"}
    /\ Len(tree) < MaxSuite + 2
    /\ \E new_node \in NewNodes \ Range(tree) : tree' = insert(tree, new_node)
    /\ pc' = "inserted"
    /\ UNCHANGED <<node_namespace, namespaces, pos>>

NextInsert == Insert

SpecInsert == InitInsert /\ [][NextInsert]_vars

\* A list of Constant nodes, visited one after the other by a visitor that
\* defines any of the visit methods; the exception ends the visit.
InitVisit ==
    /\ tree \in ConstantLists
    /\ node_namespace = <<>>
    /\ namespaces = <<>>
    /\ pc = "visit"
    /\ pos = 1

Visit ==
    /\ pc # "RuntimeError"
    /\ pos <= Len(tree)
    /\ \E defined \in SUBSET VisitMethods : pc' = visit_Constant(defined, tree[pos])
    /\ pos' = pos + 1
    /\ UNCHANGED <<tree, node_namespace, namespaces>>

NextVisit == Visit

SpecVisit == InitVisit /\ [][NextVisit]_vars

(***************************************************************************)
(* Vocabulary of the properties.                                           *)
(***************************************************************************)
Nodes == DOMAIN tree

Scopes == DOMAIN namespaces

\* resolve_names has handled node i.
Resolved(i) == pc = "done" \/ (pc = "resolve" /\ i < pos)

\* bind_names has handled node i.
Bound(i) == pc \in {"resolve", "done"} \/ (pc = "bind" /\ i < pos)

\* Node i is an occurrence of name n.
Mentions(i, n) ==
    \/ tree[i].kind = "Name" /\ tree[i].name = n
    \/ tree[i].kind \in {"Global", "Nonlocal"} /\ n \in Range(tree[i].names)

IsLoad(i) == tree[i].kind = "Name" /\ tree[i].ctx = "Load"

\* The places <<scope, binding, position>> where node i is a reference.
RefPlaces(i) ==
    { p \in UNION { UNION { { <<s, k, j>> : j \in DOMAIN namespaces[s].bindings[k].references }
                            : k \in DOMAIN namespaces[s].bindings }
                    : s \in Scopes } :
        namespaces[p[1]].bindings[p[2]].references[p[3]] = i }

\* Scope a is scope s or one of its ancestors in the namespace tree.
IsAncestorOrSelf(a, s) ==
    \/ a = s
    \/ /\ namespaces[s].parent_namespace # 0
       /\ IsAncestorOrSelf(a, namespaces[s].parent_namespace)

IsClass(s) == namespaces[s].cls = "ClassNamespace"

HasBinding(s, n) == \E k \in DOMAIN namespaces[s].bindings : namespaces[s].bindings[k].name = n

IsFunction(s) == namespaces[s].cls = "FunctionNamespace"

\* The namespace node i is owned by.
Owner(i) == node_namespace[i]

\* Name node i is a plain assignment target.
IsPlainStore(i) == tree[i].kind = "Name" /\ tree[i].ctx = "Store" /\ ~tree[i].aug

\* Name node i is read, or read and written by an augmented assignment.
IsReadOrAugStore(i) ==
    tree[i].kind = "Name" /\ (tree[i].ctx = "Load" \/ (tree[i].ctx = "Store" /\ tree[i].aug))

\* The scopes that hold a reference to node i.
Holders(i) == { p[1] : p \in RefPlaces(i) }

\* The place <<scope, binding>> get_binding returns for name n looked up
\* from scope s in the current state.
Found(n, s) ==
    LET r == get_binding(n, s, namespaces) IN <<r.ns, r.idx>>

\* The nearest proper ancestor of s that is not a class scope.
NearestNonClassAncestor(s) ==
    CHOOSE a \in Scopes :
        /\ a # s /\ IsAncestorOrSelf(a, s) /\ ~IsClass(a)
        /\ \A b \in Scopes :
              (b # s /\ b # a /\ IsAncestorOrSelf(a, b) /\ IsAncestorOrSelf(b, s)) => IsClass(b)

\* The names the inputs use.
Names == FocusNames \cup {FunctionName, ClassName}

\* Node i is an occurrence bind_names makes a reference.
BinderOccurrence(i) ==
    \/ /\ tree[i].kind = "Name" /\ tree[i].ctx = "Store"
       /\ tree[i].name \notin namespaces[Owner(i)].nonlocal_names
    \/ /\ tree[i].kind \in {"FunctionDef", "ClassDef"}
       /\ tree[i].name \notin namespaces[Owner(i)].nonlocal_names
    \/ tree[i].kind = "Global"

\* Node i is an occurrence of name n that resolve_names makes a reference.
ResolverOccurrence(i, n) ==
    \/ IsLoad(i) /\ tree[i].name = n
    \/ /\ tree[i].kind \in {"Name", "FunctionDef", "ClassDef"} /\ tree[i].name = n
       /\ ~IsLoad(i)
       /\ n \in namespaces[Owner(i)].nonlocal_names
    \/ tree[i].kind = "Nonlocal" /\ n \in Range(tree[i].names)

\* The scopes a lookup of n from scope s passes through: s, then the module
\* for a declared-global name and the nearest non-class ancestor otherwise.
LookupChain(n, s) ==
    IF isModuleNamespace(namespaces, s) THEN {s}
    ELSE {s} \cup LookupChain(n, IF n \in namespaces[s].global_names
                                 THEN 1
                                 ELSE NearestNonClassAncestor(s))

\* Binding k of scope s was made by bind_names.
MadeByBinder(s, k) ==
    /\ namespaces[s].bindings[k].cls = "NameBinding"
    /\ namespaces[s].bindings[k].references # <<>>
    /\ BinderOccurrence(namespaces[s].bindings[k].references[1])

\* Some scope on the lookup chain of n from s holds a binding of n that
\* bind_names made.
BoundOnChain(n, s) ==
    \E a \in LookupChain(n, s) : \E k \in DOMAIN namespaces[a].bindings :
        namespaces[a].bindings[k].name = n /\ MadeByBinder(a, k)

References(s, k) == namespaces[s].bindings[k].references

(***************************************************************************)
(* C1: every resolved name-reading occurrence (Name node in Load context)  *)
(* is a reference of exactly one binding, and the scope holding that       *)
(* binding is the occurrence's owning scope or an ancestor of it that is   *)
(* not a class scope: never a sibling, a descendant or a skipped class.    *)
(***************************************************************************)
C1_ReadResolvesToAncestor ==
    \A i \in Nodes :
        (IsLoad(i) /\ Resolved(i)) =>
            /\ Cardinality(RefPlaces(i)) = 1
            /\ \A p \in RefPlaces(i) :
                  /\ namespaces[p[1]].bindings[p[2]].name = tree[i].name
                  /\ IsAncestorOrSelf(p[1], node_namespace[i])
                  /\ (p[1] = node_namespace[i] \/ ~IsClass(p[1]))

\* A read inside a method resolved to a function's binding past a class
\* scope that binds the same name.
C1_Witness ==
    /\ pc = "done"
    /\ \E i \in Nodes : \E p \in RefPlaces(i) : \E c \in Scopes :
          /\ IsLoad(i)
          /\ namespaces[p[1]].cls = "FunctionNamespace"
          /\ IsClass(c) /\ HasBinding(c, tree[i].name)
          /\ c # p[1] /\ c # node_namespace[i]
          /\ IsAncestorOrSelf(p[1], c)
          /\ IsAncestorOrSelf(c, node_namespace[i])

(***************************************************************************)
(* C2: for a non-module scope S and a name n in S.global_names,            *)
(* get_binding(n, S) returns the module scope's binding of n, whatever     *)
(* same-named bindings the scopes in between hold and also when n is in    *)
(* S.nonlocal_names; every occurrence the resolver handles there becomes a *)
(* reference of the module's binding.  At the module scope the two         *)
(* declared-name sets make no difference to the lookup.                    *)
(***************************************************************************)
C2_GlobalResolvesInModule ==
    pc # "parsed" =>
        /\ \A s \in Scopes : \A n \in namespaces[s].global_names :
              ~isModuleNamespace(namespaces, s) =>
                 LET r == get_binding(n, s, namespaces)
                 IN  r.ns = 1 /\ r.nss[1].bindings[r.idx].name = n
        /\ \A i \in Nodes : \A n \in namespaces[Owner(i)].global_names :
              ( /\ ~isModuleNamespace(namespaces, Owner(i))
                /\ Mentions(i, n)
                /\ (IsLoad(i) \/ tree[i].kind = "Nonlocal")
                /\ Resolved(i) ) =>
                 (RefPlaces(i) # {} /\ Holders(i) = {1})
        /\ \A n \in Names :
              LET plain == [namespaces EXCEPT ![1].global_names = {},
                                              ![1].nonlocal_names = {}]
                  r == get_binding(n, 1, namespaces)
                  q == get_binding(n, 1, plain)
              IN  r.ns = 1 /\ r.idx = q.idx /\ r.nss[1].bindings = q.nss[1].bindings

\* A method declares the name global and nonlocal, the function around its
\* class binds the name, and the method's occurrence is a reference of the
\* module's binding.
C2_Witness ==
    /\ pc = "done"
    /\ \E i \in Nodes : \E a \in Scopes :
          LET s == Owner(i) IN
          /\ tree[i].kind = "Nonlocal"
          /\ tree[i].names[1] \in namespaces[s].global_names
          /\ tree[i].names[1] \in namespaces[s].nonlocal_names
          /\ a # s /\ a # 1 /\ IsAncestorOrSelf(a, s) /\ IsFunction(a)
          /\ HasBinding(a, tree[i].names[1])
          /\ Holders(i) = {1}

(***************************************************************************)
(* C3.  The claim as stated: for a name n declared nonlocal in a function  *)
(* scope M whose parent is a class scope C whose parent is a function      *)
(* scope F binding n, every occurrence of n in M (the nonlocal             *)
(* declaration, reads, writes) is a reference of F's binding of n.         *)
(***************************************************************************)
C3_MethodOccurrences(only_when_not_global) ==
    \A m \in Scopes : \A n \in namespaces[m].nonlocal_names :
        LET c == namespaces[m].parent_namespace
            f == namespaces[c].parent_namespace
        IN  ( /\ IsFunction(m) /\ c # 0 /\ IsClass(c) /\ f # 0 /\ IsFunction(f)
              /\ HasBinding(f, n)
              /\ (only_when_not_global => n \notin namespaces[m].global_names) ) =>
               \A i \in Nodes :
                  ( /\ Owner(i) = m /\ Mentions(i, n) /\ Resolved(i)
                    /\ tree[i].kind \in {"Name", "Nonlocal"} ) =>
                      /\ RefPlaces(i) # {}
                      /\ \A p \in RefPlaces(i) :
                            p[1] = f /\ namespaces[f].bindings[p[2]].name = n

C3_AsClaimed == C3_MethodOccurrences(FALSE)

(***************************************************************************)
(* C3, amended: the same for a name n that is not also declared global in  *)
(* M; the class's own binding of n gets no reference from M; and for every *)
(* non-module scope and every name not declared global in it that is       *)
(* declared nonlocal or has no local binding, the lookup gives what the    *)
(* lookup from the nearest non-class proper ancestor gives.                *)
(***************************************************************************)
C3_NonlocalSkipsClass ==
    pc # "parsed" =>
        /\ C3_MethodOccurrences(TRUE)
        /\ \A c \in Scopes : \A k \in DOMAIN namespaces[c].bindings :
              IsClass(c) =>
                 \A j \in DOMAIN namespaces[c].bindings[k].references :
                    LET i == namespaces[c].bindings[k].references[j]
                    IN  Owner(i) = c \/ namespaces[Owner(i)].parent_namespace # c
        /\ \A s \in Scopes : \A n \in Names :
              ( /\ ~isModuleNamespace(namespaces, s)
                /\ n \notin namespaces[s].global_names
                /\ (n \in namespaces[s].nonlocal_names \/ ~HasBinding(s, n)) ) =>
                 get_binding(n, s, namespaces)
                    = get_binding(n, NearestNonClassAncestor(s), namespaces)

\* A method in a class in a function: the class and the function both bind
\* the name, the method declares it nonlocal and its augmented assignment
\* is a reference of the function's binding.
C3_Witness ==
    /\ pc = "done"
    /\ \E i \in Nodes :
          LET m == Owner(i)
              c == namespaces[m].parent_namespace
              f == namespaces[c].parent_namespace
          IN  /\ tree[i].kind = "Name" /\ tree[i].ctx = "Store"
              /\ IsFunction(m) /\ c # 0 /\ IsClass(c) /\ f # 0 /\ IsFunction(f)
              /\ tree[i].name \in namespaces[m].nonlocal_names
              /\ tree[i].name \notin namespaces[m].global_names
              /\ HasBinding(c, tree[i].name)
              /\ HasBinding(f, tree[i].name)
              /\ Holders(i) = {f}

(***************************************************************************)
(* C4.  The claim as stated: a name with a Load, or the Store target of an *)
(* augmented assignment, owned by a class scope C is in C.nonlocal_names   *)
(* after scope building, C gets no binding for it, and every Name          *)
(* occurrence of it owned by C is a reference of the one binding the       *)
(* lookup from the scope given by from(C) finds.                           *)
(***************************************************************************)
C4_ClassFreeName(from(_)) ==
    pc # "parsed" =>
        \A r \in Nodes :
            (IsReadOrAugStore(r) /\ IsClass(Owner(r))) =>
                LET c == Owner(r)
                    n == tree[r].name
                IN  /\ n \in namespaces[c].nonlocal_names
                    /\ ~HasBinding(c, n)
                    /\ \A i \in Nodes :
                          ( /\ tree[i].kind = "Name" /\ tree[i].name = n
                            /\ Owner(i) = c /\ pc = "done" ) =>
                              /\ Cardinality(RefPlaces(i)) = 1
                              /\ Holders(i) # {c}
                              /\ \A p \in RefPlaces(i) : <<p[1], p[2]>> = Found(n, from(c))

C4_AsClaimed == C4_ClassFreeName(NearestNonClassAncestor)

\* Where the lookup for a class scope's free name n starts.
C4_LookupStart(c, n) ==
    IF n \in namespaces[c].global_names THEN 1 ELSE NearestNonClassAncestor(c)

(***************************************************************************)
(* C4, amended: as claimed, except that the binding is the module scope's  *)
(* when the name is also declared global in the class scope, and otherwise *)
(* the one found from the nearest enclosing non-class scope.               *)
(***************************************************************************)
C4_ClassFreeNameResolvesOutside ==
    pc # "parsed" =>
        \A r \in Nodes :
            (IsReadOrAugStore(r) /\ IsClass(Owner(r))) =>
                LET c == Owner(r)
                    n == tree[r].name
                IN  /\ n \in namespaces[c].nonlocal_names
                    /\ ~HasBinding(c, n)
                    /\ \A i \in Nodes :
                          ( /\ tree[i].kind = "Name" /\ tree[i].name = n
                            /\ Owner(i) = c /\ pc = "done" ) =>
                              /\ Cardinality(RefPlaces(i)) = 1
                              /\ Holders(i) # {c}
                              /\ \A p \in RefPlaces(i) :
                                    <<p[1], p[2]>> = Found(n, C4_LookupStart(c, n))

\* A class body with a plain assignment to a name and an augmented
\* assignment to it: both targets are references of a binding outside.
C4_Witness ==
    /\ pc = "done"
    /\ \E i, j \in Nodes :
          /\ Owner(i) = Owner(j) /\ IsClass(Owner(i))
          /\ IsPlainStore(i)
          /\ tree[j].kind = "Name" /\ tree[j].ctx = "Store" /\ tree[j].aug
          /\ tree[i].name = tree[j].name
          /\ Holders(i) = Holders(j)
          /\ Cardinality(Holders(i)) = 1
          /\ Owner(i) \notin Holders(i)

(***************************************************************************)
(* C5: a name that is only the target of plain assignments in a class body *)
(* is not in the class scope's nonlocal_names; it is a local binding of    *)
(* the class scope, and no binding of another scope gets a reference from  *)
(* the class body's occurrences of it.                                     *)
(***************************************************************************)
C5_ClassPlainStoreIsLocal ==
    pc # "parsed" =>
        \A w \in Nodes :
            LET c == Owner(w)
                n == tree[w].name
            IN  ( /\ IsPlainStore(w) /\ IsClass(c)
                  /\ \A i \in Nodes : (Owner(i) = c /\ Mentions(i, n)) => IsPlainStore(i) ) =>
                    /\ n \notin namespaces[c].nonlocal_names
                    /\ Bound(w) =>
                          /\ HasBinding(c, n)
                          /\ Cardinality(RefPlaces(w)) = 1
                          /\ Holders(w) = {c}

\* A class binds a name by plain assignment only while the function around
\* it binds the same name, and all passes have run.
C5_Witness ==
    /\ pc = "done"
    /\ \E w \in Nodes :
          LET c == Owner(w)
              n == tree[w].name
          IN  /\ IsPlainStore(w) /\ IsClass(c)
              /\ \A i \in Nodes : (Owner(i) = c /\ Mentions(i, n)) => IsPlainStore(i)
              /\ HasBinding(namespaces[c].parent_namespace, n)
              /\ Holders(w) = {c}

(***************************************************************************)
(* C6: a builtin binding exists only in the module scope, only for a known *)
(* builtin name, once per name and beside no other binding of that name;   *)
(* every lookup of the name that ends in the module scope returns it and   *)
(* creates nothing, so its references are exactly the occurrences whose    *)
(* lookup ends in the module scope, one reference each.  A read whose      *)
(* lookup chain holds a binding of the name made by the binder is a        *)
(* reference of such a binding and of no builtin binding.                  *)
(***************************************************************************)
C6_OneBuiltinBinding ==
    pc # "parsed" =>
        /\ \A s \in Scopes : \A k \in DOMAIN namespaces[s].bindings :
              namespaces[s].bindings[k].cls = "BuiltinBinding" =>
                 LET n == namespaces[s].bindings[k].name
                 IN  /\ s = 1
                     /\ n \in builtins
                     /\ \A j \in DOMAIN namespaces[s].bindings :
                           j # k => namespaces[s].bindings[j].name # n
                     /\ \A a \in Scopes :
                           Found(n, a)[1] = 1 =>
                              /\ Found(n, a) = <<1, k>>
                              /\ get_binding(n, a, namespaces).nss = namespaces
                     /\ pc = "done" =>
                           LET uses == { i \in Nodes : /\ ResolverOccurrence(i, n)
                                                       /\ Found(n, Owner(i))[1] = 1 }
                           IN  /\ Range(References(s, k)) = uses
                               /\ Len(References(s, k)) = Cardinality(uses)
        /\ \A i \in Nodes :
              (IsLoad(i) /\ Resolved(i) /\ BoundOnChain(tree[i].name, Owner(i))) =>
                 \A p \in RefPlaces(i) :
                    /\ p[1] \in LookupChain(tree[i].name, Owner(i))
                    /\ MadeByBinder(p[1], p[2])
                    /\ namespaces[p[1]].bindings[p[2]].name = tree[i].name

\* Two reads of a builtin name in different scopes, neither bound on its
\* lookup chain: one builtin binding with both as references.
C6_Witness ==
    /\ pc = "done"
    /\ \E k \in DOMAIN namespaces[1].bindings :
          /\ namespaces[1].bindings[k].cls = "BuiltinBinding"
          /\ Len(References(1, k)) >= 2
          /\ \E i, j \in Range(References(1, k)) : Owner(i) # Owner(j)

(***************************************************************************)
(* C7: once name resolution has created a builtin binding for exec, eval,  *)
(* locals, globals or vars the module Namespace reports is_tainted, and a  *)
(* program that uses none of them leaves it untainted.                     *)
(***************************************************************************)
C7_IntrospectionTaintsModule ==
    pc # "parsed" =>
        (is_tainted(namespaces[1]) <=>
            \E k \in DOMAIN namespaces[1].bindings :
                /\ namespaces[1].bindings[k].cls = "BuiltinBinding"
                /\ namespaces[1].bindings[k].name \in introspecting)

(***************************************************************************)
(* C8: an occurrence the resolver handles of a name that is no builtin and *)
(* that the binder bound in no scope of its lookup chain is a reference of *)
(* an ordinary binding of the module scope whose rename-allowed flag is    *)
(* off, in every later state, the rename options included.                 *)
(***************************************************************************)
C8_UnresolvedNameKeepsItsText ==
    pc # "parsed" =>
        \A i \in Nodes : \A n \in Names :
            ( /\ ResolverOccurrence(i, n) /\ Resolved(i)
              /\ n \notin builtins
              /\ ~BoundOnChain(n, Owner(i)) ) =>
               /\ Cardinality(RefPlaces(i)) = 1
               /\ \A p \in RefPlaces(i) :
                     /\ p[1] = 1
                     /\ namespaces[1].bindings[p[2]].cls = "NameBinding"
                     /\ namespaces[1].bindings[p[2]].name = n
                     /\ ~namespaces[1].bindings[p[2]].allow_rename

\* A read in a function of a name nothing binds, after rename options that
\* left another module binding renamable.
C8_Witness ==
    /\ pc = "done"
    /\ \E i \in Nodes : \E k, j \in DOMAIN namespaces[1].bindings :
          /\ IsLoad(i) /\ Owner(i) # 1
          /\ tree[i].name \notin builtins
          /\ ~BoundOnChain(tree[i].name, Owner(i))
          /\ i \in Range(References(1, k))
          /\ ~namespaces[1].bindings[k].allow_rename
          /\ namespaces[1].bindings[j].allow_rename
          /\ \E s \in Scopes : \E m \in DOMAIN namespaces[s].bindings :
                s # 1 /\ ~namespaces[s].bindings[m].allow_rename

(***************************************************************************)
(* C9: in every state during and after the binder and resolver passes no   *)
(* scope's binding list holds two bindings with the same name.             *)
(***************************************************************************)
C9_OneBindingPerName ==
    \A s \in Scopes : \A j, k \in DOMAIN namespaces[s].bindings :
        j # k => namespaces[s].bindings[j].name # namespaces[s].bindings[k].name

\* The module scope holds two bindings, one of them made by the resolver
\* and used twice.
C9_Witness ==
    /\ pc = "done"
    /\ \E j, k \in DOMAIN namespaces[1].bindings :
          /\ j # k
          /\ ~MadeByBinder(1, k)
          /\ Len(References(1, k)) >= 2

(***************************************************************************)
(* C10.  The claim as stated: after both passes the reference list of      *)
(* every binding is in pre-order of the nodes.                             *)
(***************************************************************************)
C10_AsClaimed ==
    pc = "done" =>
        \A s \in Scopes : \A k \in DOMAIN namespaces[s].bindings :
            \A a, b \in DOMAIN References(s, k) :
                a < b => References(s, k)[a] < References(s, k)[b]

(***************************************************************************)
(* C10, amended: the reference list of every binding is the references the *)
(* binder made, in pre-order, followed by the references the resolver      *)
(* made, in pre-order.                                                     *)
(***************************************************************************)
C10_PreOrderWithinEachPass ==
    \A s \in Scopes : \A k \in DOMAIN namespaces[s].bindings :
        \A a, b \in DOMAIN References(s, k) :
            a < b =>
               LET x == References(s, k)[a]
                   y == References(s, k)[b]
               IN  \/ BinderOccurrence(x) /\ ~BinderOccurrence(y)
                   \/ (BinderOccurrence(x) <=> BinderOccurrence(y)) /\ x < y

\* A binding with two references from each pass, where a read comes before
\* an assignment in the source.
C10_Witness ==
    /\ pc = "done"
    /\ \E s \in Scopes : \E k \in DOMAIN namespaces[s].bindings :
          /\ \E a, b \in DOMAIN References(s, k) :
                a < b /\ References(s, k)[a] > References(s, k)[b]
          /\ Cardinality({a \in DOMAIN References(s, k) :
                             BinderOccurrence(References(s, k)[a])}) >= 2
          /\ Cardinality({a \in DOMAIN References(s, k) :
                             ~BinderOccurrence(References(s, k)[a])}) >= 2

(***************************************************************************)
(* Vocabulary of the properties of definitions.                            *)
(***************************************************************************)
\* Node i is node r or inside the subtree of r.
Within(i, r) == i = r \/ (i > r /\ tree[i].parent # 0 /\ Within(tree[i].parent, r))

IntroducesScope(i) ==
    tree[i].kind \in {"FunctionDef", "ClassDef", "Lambda", "GeneratorExp", "DictComp"}

\* Node i is inside the subtree of r with no scope-introducing node from
\* r down to the parent of i.
DirectlyWithin(i, r) ==
    \/ i = r
    \/ /\ i > r /\ tree[i].parent # 0
       /\ ~IntroducesScope(tree[i].parent)
       /\ DirectlyWithin(tree[i].parent, r)

\* The scopes introduced by node d.
ScopesOf(d) == { s \in Scopes : namespaces[s].node = d }

\* The arguments node of definition d (a set of at most one node).
ArgumentsOf(d) == { a \in Nodes : tree[a].parent = d /\ tree[a].kind = "arguments" }

\* The parameters of definition d in the given fields of its arguments.
ParametersOf(d, fields) ==
    { i \in Nodes : /\ tree[i].kind = "arg" /\ tree[i].field \in fields
                    /\ tree[i].parent \in ArgumentsOf(d) }

AllParameterFields == {"posonlyargs", "args", "vararg", "kwonlyargs", "kwarg"}

\* The roots of the default values of definition d.
DefaultsOf(d) ==
    { r \in Nodes : /\ tree[r].field \in {"defaults", "kw_defaults"}
                    /\ tree[r].parent \in ArgumentsOf(d) }

\* The roots of the annotations of the ordinary parameters of d.
ParameterAnnotationsOf(d) ==
    { r \in Nodes : /\ tree[r].field = "annotation"
                    /\ tree[r].parent \in ParametersOf(d, {"posonlyargs", "args", "kwonlyargs"}) }

\* The roots of the decorators and of the return annotation of d.
DecoratorsAndReturnsOf(d) ==
    { r \in Nodes : tree[r].parent = d /\ tree[r].field \in {"decorator_list", "returns"} }

\* The expressions of definition d the enclosing scope evaluates.
OuterExpressionsOf(d) ==
    DefaultsOf(d) \cup ParameterAnnotationsOf(d) \cup DecoratorsAndReturnsOf(d)

IsFunctionDef(d) == tree[d].kind = "FunctionDef"

Built == pc # "parsed"

(***************************************************************************)
(* C11: for every function definition, with or without type parameters,    *)
(* every node of a parameter default, of an ordinary parameter's           *)
(* annotation, of a decorator and of the return annotation that is not     *)
(* inside a nested scope-introducing node is owned by the scope that owns  *)
(* the definition, and no node of them is owned by the function scope, the *)
(* annotation scope or a scope below these; the arguments node, the        *)
(* parameters and the body statements are owned by the function scope.  A  *)
(* name read in a default never becomes a reference of a binding held by   *)
(* the function scope or the annotation scope of that definition.          *)
(***************************************************************************)
C11_DefaultsAndAnnotationsOutside ==
    Built =>
        \A d \in Nodes :
            IsFunctionDef(d) =>
               /\ \A r \in OuterExpressionsOf(d) : \A i \in Nodes :
                     /\ DirectlyWithin(i, r) => Owner(i) = Owner(d)
                     /\ Within(i, r) =>
                           \A s \in ScopesOf(d) : ~IsAncestorOrSelf(s, Owner(i))
               /\ \E f \in ScopesOf(d) :
                     /\ IsFunction(f)
                     /\ \A i \in ArgumentsOf(d) \cup ParametersOf(d, AllParameterFields) :
                           Owner(i) = f
                     /\ \A i \in Nodes :
                           (tree[i].parent = d /\ tree[i].field = "body") => Owner(i) = f
               /\ \A r \in DefaultsOf(d) : \A i \in Nodes :
                     (Within(i, r) /\ IsLoad(i) /\ Resolved(i)) =>
                        \A p \in RefPlaces(i) : p[1] \notin ScopesOf(d)

\* A method with a type parameter T and the default value T: the default
\* is a reference of a module binding while the annotation scope binds T,
\* and the body's read of T is a reference of the annotation scope's T.
C11_Witness ==
    /\ pc = "done"
    /\ \E d \in Nodes : \E r \in DefaultsOf(d) : \E a \in ScopesOf(d) : \E b \in Nodes :
          /\ IsFunctionDef(d) /\ IsClass(Owner(d))
          /\ namespaces[a].cls = "AnnotationNamespace"
          /\ HasBinding(a, "T")
          /\ IsLoad(r) /\ tree[r].name = "T"
          /\ Holders(r) = {1}
          /\ tree[b].parent = d /\ tree[b].field = "body" /\ Holders(b) = {a}
          /\ ParameterAnnotationsOf(d) # {}

(***************************************************************************)
(* Vocabulary of the properties of type parameters.                        *)
(***************************************************************************)
\* The type parameters of definition d.
TypeParamsOf(d) == { i \in Nodes : tree[i].parent = d /\ tree[i].field = "type_params" }

\* The annotation scopes and the other scopes introduced by node d.
AnnotationScopesOf(d) == { s \in ScopesOf(d) : namespaces[s].cls = "AnnotationNamespace" }

OwnScopesOf(d) == ScopesOf(d) \ AnnotationScopesOf(d)

\* The roots of the parameter annotations and of the return annotation of d.
OwnAnnotationsOf(d) ==
    ParameterAnnotationsOf(d)
        \cup { r \in Nodes : tree[r].parent = d /\ tree[r].field = "returns" }

(***************************************************************************)
(* C12: for a function definition with a type parameter T, a read of T in  *)
(* one of its parameter annotations or in its return annotation is, once   *)
(* resolved, a reference of the binding of T held by the annotation scope  *)
(* of that function.                                                       *)
(***************************************************************************)
C12_TypeParameterSeenByAnnotations ==
    \A d \in Nodes : \A tp \in TypeParamsOf(d) : \A r \in OwnAnnotationsOf(d) :
        \A i \in Nodes :
            ( /\ IsFunctionDef(d)
              /\ DirectlyWithin(i, r) /\ IsLoad(i) /\ tree[i].name = tree[tp].name
              /\ Resolved(i) ) =>
               /\ Holders(i) = AnnotationScopesOf(d)
               /\ Cardinality(AnnotationScopesOf(d)) = 1

(***************************************************************************)
(* C13.  The claim as stated, for only_scope = TRUE: a definition with     *)
(* type parameters adds to the scope that owns it exactly one annotation   *)
(* scope, whose only child is the function or class scope, and every type- *)
(* parameter node is owned by the annotation scope; a definition without   *)
(* type parameters and every lambda gets no annotation scope, and its      *)
(* scope is a child of the scope that owns it.                             *)
(* For only_scope = FALSE the definition's scope is the first child of the *)
(* annotation scope and the other children are scopes introduced inside    *)
(* the type parameters, and a lambda has a scope under the scope that owns *)
(* it without that being its only scope.                                   *)
(***************************************************************************)
C13_AnnotationScope(only_scope) ==
    Built =>
        \A d \in Nodes :
            /\ ( tree[d].kind \in {"FunctionDef", "ClassDef"} /\ TypeParamsOf(d) # {} ) =>
                  \E a, f \in Scopes :
                     /\ AnnotationScopesOf(d) = {a}
                     /\ OwnScopesOf(d) = {f}
                     /\ namespaces[a].parent_namespace = Owner(d)
                     /\ Cardinality({ k \in DOMAIN namespaces[Owner(d)].children :
                                         namespaces[Owner(d)].children[k] = a }) = 1
                     /\ namespaces[f].parent_namespace = a
                     /\ namespaces[f].cls = IF IsFunctionDef(d) THEN "FunctionNamespace"
                                                                ELSE "ClassNamespace"
                     /\ namespaces[a].children # <<>>
                     /\ namespaces[a].children[1] = f
                     /\ IF only_scope
                        THEN namespaces[a].children = <<f>>
                        ELSE \A k \in 2..Len(namespaces[a].children) :
                                \E tp \in TypeParamsOf(d) :
                                   Within(namespaces[namespaces[a].children[k]].node, tp)
                     /\ \A tp \in TypeParamsOf(d) : Owner(tp) = a
            /\ ( tree[d].kind \in {"FunctionDef", "ClassDef", "Lambda"} /\ TypeParamsOf(d) = {} ) =>
                  /\ AnnotationScopesOf(d) = {}
                  /\ \E f \in OwnScopesOf(d) :
                        /\ namespaces[f].parent_namespace = Owner(d)
                        /\ \E k \in DOMAIN namespaces[Owner(d)].children :
                              namespaces[Owner(d)].children[k] = f
                  /\ (only_scope \/ tree[d].kind # "Lambda") =>
                        Cardinality(OwnScopesOf(d)) = 1

C13_AsClaimed == C13_AnnotationScope(TRUE)

(***************************************************************************)
(* C13, amended: as claimed, except that the annotation scope's children   *)
(* are the function or class scope first and then the scopes introduced    *)
(* inside the type parameters, and that a lambda's scope under the scope   *)
(* that owns it need not be the only scope made for that lambda.           *)
(***************************************************************************)
C13_AnnotationScopeInterposed == C13_AnnotationScope(FALSE)

\* A class with a type parameter whose bound holds a lambda, inside a
\* function: the annotation scope has the class scope and the lambda's
\* scope as children.
C13_Witness ==
    /\ Built
    /\ \E d \in Nodes : \E a \in AnnotationScopesOf(d) :
          /\ tree[d].kind = "ClassDef"
          /\ IsFunction(Owner(d))
          /\ Len(namespaces[a].children) = 2
          /\ IsClass(namespaces[a].children[1])
          /\ tree[namespaces[namespaces[a].children[2]].node].kind = "Lambda"

(***************************************************************************)
(* Vocabulary of the properties of comprehensions.                         *)
(***************************************************************************)
IsComprehension(c) == tree[c].kind \in {"GeneratorExp", "DictComp"}

\* The clauses of comprehension c, in order.
ClausesOf(c) == field_nodes(tree, c, "generators")

\* The roots of the given fields of clause k of comprehension c.
ClausePartsOf(c, k, fields) ==
    { r \in Nodes : tree[r].parent = ClausesOf(c)[k] /\ tree[r].field \in fields }

(***************************************************************************)
(* C14: a comprehension gets one function-kind scope K, a child of the     *)
(* scope E that owns it; the iterable of the first clause is owned by E;   *)
(* the element (or key and value), the clauses, every loop target, every   *)
(* filter condition and the iterables of the later clauses are owned by K. *)
(* Once resolved, the first iterable is a reference of a binding on the    *)
(* lookup chain of E, and a later iterable that reads the loop target's    *)
(* name is a reference of K's binding.                                     *)
(***************************************************************************)
C14_FirstIterableOutside ==
    Built =>
        \A c \in Nodes :
            IsComprehension(c) =>
               \E K \in Scopes :
                  /\ ScopesOf(c) = {K}
                  /\ IsFunction(K)
                  /\ namespaces[K].parent_namespace = Owner(c)
                  /\ \A i \in Nodes :
                        tree[i].parent = c => Owner(i) = K
                  /\ \A k \in DOMAIN ClausesOf(c) :
                        /\ \A r \in ClausePartsOf(c, k, {"target", "ifs"}) : Owner(r) = K
                        /\ \A r \in ClausePartsOf(c, k, {"iter"}) :
                              /\ Owner(r) = IF k = 1 THEN Owner(c) ELSE K
                              /\ (IsLoad(r) /\ Resolved(r)) =>
                                    IF k = 1
                                    THEN /\ K \notin Holders(r)
                                         /\ Holders(r) \subseteq
                                               LookupChain(tree[r].name, Owner(c))
                                    ELSE \A t \in ClausePartsOf(c, 1, {"target"}) :
                                            tree[t].name = tree[r].name =>
                                               Holders(r) = {K}

\* (x for x in x for x in x) in a function that binds x: the first
\* iterable refers to the function's x, the second to the comprehension's.
C14_Witness ==
    /\ pc = "done"
    /\ \E c \in Nodes : \E K \in ScopesOf(c) :
          /\ IsComprehension(c)
          /\ Len(ClausesOf(c)) = 2
          /\ IsFunction(Owner(c))
          /\ \E r1 \in ClausePartsOf(c, 1, {"iter"}), r2 \in ClausePartsOf(c, 2, {"iter"}) :
                /\ tree[r1].name = "x" /\ tree[r2].name = "x"
                /\ Holders(r1) = {Owner(c)}
                /\ Holders(r2) = {K}
                /\ Len(References(K, 1)) >= 4

(***************************************************************************)
(* C15: after scope building the global_names of every scope are exactly   *)
(* the names listed by the global declarations that scope owns, and its    *)
(* nonlocal_names exactly the names listed by the nonlocal declarations it *)
(* owns (for a class scope, together with the names the class body reads   *)
(* or updates in place); no scope is introduced by a declaration.          *)
(***************************************************************************)
C15_DeclarationsStayInTheirScope ==
    Built =>
        \A s \in Scopes :
            /\ namespaces[s].global_names =
                  UNION { Range(tree[i].names) :
                            i \in { j \in Nodes : tree[j].kind = "Global" /\ Owner(j) = s } }
            /\ namespaces[s].nonlocal_names =
                  UNION { Range(tree[i].names) :
                            i \in { j \in Nodes : tree[j].kind = "Nonlocal" /\ Owner(j) = s } }
                     \cup { tree[i].name :
                              i \in { j \in Nodes : /\ IsClass(s) /\ Owner(j) = s
                                                    /\ IsReadOrAugStore(j) } }
            /\ tree[namespaces[s].node].kind \notin {"Global", "Nonlocal"}

\* def f(): global x, y  holding  def f(): global y; nonlocal x  beside a
\* class that declares nothing.
C15_Witness ==
    /\ Built
    /\ \E a, n, c \in Scopes :
          /\ namespaces[a].parent_namespace = 1
          /\ namespaces[n].parent_namespace = a
          /\ namespaces[c].parent_namespace = 1
          /\ IsClass(c)
          /\ namespaces[a].global_names = {"x", "y"} /\ namespaces[a].nonlocal_names = {}
          /\ namespaces[n].global_names = {"y"} /\ namespaces[n].nonlocal_names = {"x"}
          /\ namespaces[c].global_names = {} /\ namespaces[c].nonlocal_names = {}
          /\ namespaces[1].global_names = {} /\ namespaces[1].nonlocal_names = {}

(***************************************************************************)
(* Vocabulary of the properties of the scope tree.                         *)
(***************************************************************************)
\* How often scope s occurs in the children list of scope p.
TimesChildOf(s, p) ==
    Cardinality({ k \in DOMAIN namespaces[p].children : namespaces[p].children[k] = s })

\* The scopes form a tree rooted at the one module scope.
ScopeTree ==
    /\ { s \in Scopes : isModuleNamespace(namespaces, s) } = {1}
    /\ namespaces[1].parent_namespace = 0
    /\ \A s \in Scopes \ {1} :
          /\ namespaces[s].parent_namespace \in Scopes
          /\ \A p \in Scopes :
                TimesChildOf(s, p) = IF p = namespaces[s].parent_namespace THEN 1 ELSE 0
          /\ IsAncestorOrSelf(1, s)

\* A step keeps every scope, with its parent, its kind and its node, and
\* only appends to children lists.
ScopesKept ==
    \A s \in Scopes :
        /\ s \in DOMAIN namespaces'
        /\ namespaces'[s].parent_namespace = namespaces[s].parent_namespace
        /\ namespaces'[s].cls = namespaces[s].cls
        /\ namespaces'[s].node = namespaces[s].node
        /\ Len(namespaces'[s].children) >= Len(namespaces[s].children)
        /\ SubSeq(namespaces'[s].children, 1, Len(namespaces[s].children))
              = namespaces[s].children

(***************************************************************************)
(* C16: after create_all_namespaces and after every later add_child call   *)
(* the scopes form a tree: one module scope, which has no parent; every    *)
(* other scope has a parent, occurs once in that parent's children list    *)
(* and in no other children list, and is reachable from the module scope;  *)
(* no step removes a scope or gives it another parent.                     *)
(***************************************************************************)
C16_ScopesFormATree == [](Built => ScopeTree) /\ [][ScopesKept]_vars

\* add_child calls have added a definition with a type parameter and
\* another scope to a tree that had neither.
C16_Witness ==
    /\ Built
    /\ Len(tree) = MaxNodes
    /\ \E a, s \in Scopes :
          /\ namespaces[a].cls = "AnnotationNamespace"
          /\ namespaces[s].node > namespaces[a].node
          /\ namespaces[s].parent_namespace # a
          /\ s # a

(***************************************************************************)
(* C17: the traversal visits every node once, so every node that          *)
(* introduces a scope (a def, a class, a lambda, a comprehension, wherever *)
(* it stands, a parameter annotation included) leaves exactly one scope    *)
(* whose node it is, and exactly two (annotation scope and function or     *)
(* class scope) when it has type parameters.                               *)
(***************************************************************************)
C17_EveryNodeVisitedOnce ==
    Built =>
        \A i \in Nodes :
            IntroducesScope(i) =>
                Cardinality(ScopesOf(i)) = IF TypeParamsOf(i) # {} THEN 2 ELSE 1

(***************************************************************************)
(* Parameters and in-place renaming.                                       *)
(***************************************************************************)
\* arg_rename_in_place of parameter i in the tree with its scopes built.
RenameInPlace(i) == arg_rename_in_place(i, tree, node_namespace, namespaces)

\* d is a def or a lambda.
HasParameters(d) == tree[d].kind \in {"FunctionDef", "Lambda"}

\* d is a named function defined directly in a class body.
IsMethod(d) ==
    /\ IsFunctionDef(d)
    /\ tree[d].field = "body"
    /\ tree[d].parent # 0
    /\ tree[tree[d].parent].kind = "ClassDef"

\* The parameters of d in one field of its arguments, in order.
ParameterList(d, field) ==
    IF field_nodes(tree, d, "args") = <<>> THEN <<>>
    ELSE field_nodes(tree, Head(field_nodes(tree, d, "args")), field)

\* The positional parameters of d: positional-only, then ordinary ones.
PositionalOf(d) == ParameterList(d, "posonlyargs") \o ParameterList(d, "args")

\* i is the first positional parameter of d.
IsFirstPositional(i, d) == PositionalOf(d) # <<>> /\ i = Head(PositionalOf(d))

\* The decorators of d, in order.
DecoratorsOf(d) == field_nodes(tree, d, "decorator_list")

\* d has no decorators, or the bare name classmethod as its one decorator.
PlainOrClassmethod(d) ==
    \/ DecoratorsOf(d) = <<>>
    \/ /\ Len(DecoratorsOf(d)) = 1
       /\ tree[DecoratorsOf(d)[1]].kind = "Name"
       /\ tree[DecoratorsOf(d)[1]].name = "classmethod"

\* The first positional parameter of every method among those given is
\* renamed in place exactly when the method is plain or a classmethod.
FirstParameterRule(methods) ==
    \A d \in methods :
        PositionalOf(d) # <<>> =>
            (RenameInPlace(Head(PositionalOf(d))) <=> PlainOrClassmethod(d))

\* C18 as stated: for a named function defined directly in a class body,
\* arg_rename_in_place of its first positional parameter is True if and
\* only if the function has no decorators or its one decorator is the bare
\* name classmethod.
C18_AsClaimed ==
    Built => FirstParameterRule({ d \in Nodes : IsMethod(d) })

(***************************************************************************)
(* C18: for a named function defined directly in a class body,             *)
(* arg_rename_in_place of its first positional parameter is True if and    *)
(* only if that parameter is positional-only, or the function has no       *)
(* decorators, or its one decorator is the bare name classmethod.          *)
(***************************************************************************)
C18_FirstPositionalParameter ==
    Built =>
        \A d \in Nodes :
            IsMethod(d) /\ PositionalOf(d) # <<>> =>
                (RenameInPlace(Head(PositionalOf(d)))
                    <=> \/ ParameterList(d, "posonlyargs") # <<>>
                        \/ PlainOrClassmethod(d))

\* A method decorated with the bare classmethod whose first parameter is
\* renamed in place and whose second is not.
C18_Witness ==
    /\ Built
    /\ \E d \in Nodes :
          /\ IsMethod(d)
          /\ ParameterList(d, "posonlyargs") = <<>>
          /\ Len(DecoratorsOf(d)) = 1
          /\ PlainOrClassmethod(d)
          /\ Len(PositionalOf(d)) = 2
          /\ RenameInPlace(PositionalOf(d)[1])
          /\ ~RenameInPlace(PositionalOf(d)[2])

(***************************************************************************)
(* C19: arg_rename_in_place is False for every positional-or-keyword or    *)
(* keyword-only parameter of a def or lambda that is not the first         *)
(* positional parameter of a method (the first positional-only parameter   *)
(* if there is one, otherwise the first ordinary parameter).               *)
(***************************************************************************)
C19_KeywordPassableNotRenamed ==
    Built =>
        \A d \in Nodes :
            HasParameters(d) =>
                \A i \in ParametersOf(d, {"args", "kwonlyargs"}) :
                    ~(IsMethod(d) /\ IsFirstPositional(i, d)) => ~RenameInPlace(i)

(***************************************************************************)
(* C20: arg_rename_in_place is True for every *args parameter, every       *)
(* **kwargs parameter and every positional-only parameter of every def and *)
(* lambda, whatever its decorators and wherever it is defined.             *)
(***************************************************************************)
C20_VariadicAndPositionalOnly ==
    Built =>
        \A d \in Nodes :
            HasParameters(d) =>
                \A i \in ParametersOf(d, {"vararg", "kwarg", "posonlyargs"}) :
                    RenameInPlace(i)

\* A method decorated with staticmethod that has a positional-only
\* parameter, *args and **kwargs, all renamed in place, and an ordinary
\* parameter that is not.
C20_Witness ==
    /\ Built
    /\ \E d \in Nodes :
          /\ IsMethod(d)
          /\ ~PlainOrClassmethod(d)
          /\ \A f \in {"vararg", "kwarg", "posonlyargs"} :
                /\ ParametersOf(d, {f}) # {}
                /\ \A i \in ParametersOf(d, {f}) : RenameInPlace(i)
          /\ \E i \in ParametersOf(d, {"args"}) : ~RenameInPlace(i)

(***************************************************************************)
(* Comprehension loop targets.                                             *)
(***************************************************************************)
\* The loop targets of the comprehensions: the nodes in the target field
\* of a clause, whose owner is the comprehension's scope.
LoopTargets ==
    { i \in Nodes : /\ tree[i].field = "target"
                    /\ tree[i].parent # 0
                    /\ tree[tree[i].parent].kind = "comprehension" }

(***************************************************************************)
(* C21: for every comprehension loop target, a node owned by the scope of  *)
(* a comprehension expression, arg_rename_in_place returns True and does   *)
(* not raise, also for a comprehension directly in a class body.           *)
(***************************************************************************)
C21_LoopTargetsRenamedInPlace ==
    Built =>
        \A i \in LoopTargets :
            /\ IsComprehension(namespaces[Owner(i)].node)
            /\ arg_rename_in_place_outcome(i, tree, node_namespace, namespaces) = "True"

(***************************************************************************)
(* Rename options.                                                         *)
(***************************************************************************)
\* The passes are over: the options are applied to the resolved tree.
Done == pc = "done"

\* The module's own statements that assign to the name __all__.
ExportStatements ==
    { n \in Nodes :
        /\ tree[n].parent = 1
        /\ tree[n].kind \in {"Assign", "AugAssign", "AnnAssign"}
        /\ \E t \in Nodes :
              /\ tree[t].parent = n
              /\ tree[t].field \in {"targets", "target"}
              /\ tree[t].kind = "Name"
              /\ tree[t].name = "__all__" }

\* The string elements of the list literals those statements assign.
ExportedNames ==
    { tree[e].name :
        e \in { e \in Nodes :
                  /\ tree[e].kind = "Str"
                  /\ tree[e].parent # 0
                  /\ tree[tree[e].parent].kind = "List"
                  /\ tree[tree[e].parent].field = "value"
                  /\ tree[tree[e].parent].parent \in ExportStatements } }

\* From before to after, exactly the bindings picked by selected(s, b)
\* (scope s, binding b) have renaming disallowed; every other binding and
\* everything else in the scopes is the same.
OnlyDisallows(before, after, selected(_, _)) ==
    /\ DOMAIN after = DOMAIN before
    /\ \A s \in DOMAIN before :
          /\ [after[s] EXCEPT !.bindings = before[s].bindings] = before[s]
          /\ DOMAIN after[s].bindings = DOMAIN before[s].bindings
          /\ \A k \in DOMAIN before[s].bindings :
                after[s].bindings[k] =
                    IF selected(s, before[s].bindings[k])
                    THEN [before[s].bindings[k] EXCEPT !.allow_rename = FALSE]
                    ELSE before[s].bindings[k]

(***************************************************************************)
(* C22: apply_global_rename_options disallows renaming of every binding of *)
(* the module scope when rename_globals is False, and otherwise of exactly *)
(* the module bindings named in preserve_globals or by a string element of *)
(* a module-level __all__ list assignment; the bindings of the other       *)
(* scopes and the module bindings not selected keep their flag.            *)
(***************************************************************************)
C22_GlobalOptionsFrame ==
    Done =>
        \A rename_globals \in BOOLEAN, preserve_globals \in PreserveOptions :
            LET selected(s, b) ==
                    /\ s = 1
                    /\ \/ ~rename_globals
                       \/ b.name \in preserve_globals \cup ExportedNames
            IN  OnlyDisallows(namespaces,
                    apply_global_rename_options(namespaces, tree,
                                                rename_globals, preserve_globals),
                    selected)

\* The options were applied to a module that exports f: the module's f is
\* no longer renamable, the module's x and every function's x still are.
C22_Witness ==
    /\ Done
    /\ "f" \in ExportedNames
    /\ \E k \in DOMAIN namespaces[1].bindings :
          /\ namespaces[1].bindings[k].name = "f"
          /\ ~namespaces[1].bindings[k].allow_rename
    /\ \E k \in DOMAIN namespaces[1].bindings :
          /\ namespaces[1].bindings[k].name = "x"
          /\ namespaces[1].bindings[k].allow_rename
    /\ \A s \in Scopes \ {1} :
          \A k \in DOMAIN namespaces[s].bindings : namespaces[s].bindings[k].allow_rename

\* The number of scopes from s up to the module scope, s included.
Depth(s) == Cardinality({ a \in Scopes : IsAncestorOrSelf(a, s) })

(***************************************************************************)
(* C23: apply_local_rename_options, called on the module scope, disallows  *)
(* renaming of every binding of every non-module scope, at any depth, when *)
(* rename_locals is False, and otherwise of exactly their bindings named   *)
(* in preserve_locals; the bindings held by the module scope keep their    *)
(* flag.                                                                   *)
(***************************************************************************)
C23_LocalOptionsFrame ==
    Done =>
        \A rename_locals \in BOOLEAN, preserve_locals \in PreserveOptions :
            LET selected(s, b) ==
                    /\ s # 1
                    /\ \/ ~rename_locals
                       \/ b.name \in preserve_locals
            IN  OnlyDisallows(namespaces,
                    apply_local_rename_options(1, namespaces,
                                               rename_locals, preserve_locals),
                    selected)

\* The options were applied with x preserved: a scope three levels below
\* the module holds an x that is no longer renamable, no non-module x is
\* renamable, other non-module bindings and the module's x still are.
C23_Witness ==
    /\ Done
    /\ \E s \in Scopes :
          /\ Depth(s) >= 4
          /\ \E k \in DOMAIN namespaces[s].bindings :
                /\ namespaces[s].bindings[k].name = "x"
                /\ ~namespaces[s].bindings[k].allow_rename
    /\ \A s \in Scopes \ {1} :
          \A k \in DOMAIN namespaces[s].bindings :
              namespaces[s].bindings[k].allow_rename <=> namespaces[s].bindings[k].name # "x"
    /\ \E s \in Scopes \ {1} :
          \E k \in DOMAIN namespaces[s].bindings : namespaces[s].bindings[k].allow_rename
    /\ \E k \in DOMAIN namespaces[1].bindings :
          /\ namespaces[1].bindings[k].name = "x"
          /\ namespaces[1].bindings[k].allow_rename

(***************************************************************************)
(* Imports and the rename-allowed flag.                                    *)
(***************************************************************************)
\* The alias nodes of the import statements.
Aliases == { i \in Nodes : tree[i].kind = "alias" }

\* Alias i has no "as" name and a dotted path.
DottedUnaliased(i) == tree[i].name = "" /\ is_dotted(tree[i].names)

\* The bindings <<scope, place>> that hold node i as a reference.
BindingsHolding(i) == { <<p[1], p[2]>> : p \in RefPlaces(i) }

\* A step keeps every binding whose flag is off in its place with the
\* flag off.
FlagsOnlyTurnOff ==
    \A s \in Scopes :
        \A k \in DOMAIN namespaces[s].bindings :
            ~namespaces[s].bindings[k].allow_rename =>
                /\ s \in DOMAIN namespaces'
                /\ k \in DOMAIN namespaces'[s].bindings
                /\ namespaces'[s].bindings[k].name = namespaces[s].bindings[k].name
                /\ namespaces'[s].bindings[k].cls = namespaces[s].bindings[k].cls
                /\ ~namespaces'[s].bindings[k].allow_rename

(***************************************************************************)
(* C24: the rename-allowed flag is monotone: over every sequence of        *)
(* lookups, import handling and rename-option calls, with any option       *)
(* values, a binding whose flag is off never has it turned back on.        *)
(***************************************************************************)
C24_RenameFlagMonotone == [][FlagsOnlyTurnOff]_vars

\* The binding of a dotted import lost its flag in the passes, the module
\* binding f lost it to a later option call, and another binding still
\* has it.
C24_Witness ==
    /\ Done
    /\ \E i \in Aliases :
          /\ DottedUnaliased(i)
          /\ \E b \in BindingsHolding(i) : ~namespaces[b[1]].bindings[b[2]].allow_rename
    /\ \E k \in DOMAIN namespaces[1].bindings :
          /\ namespaces[1].bindings[k].name = FunctionName
          /\ ~namespaces[1].bindings[k].allow_rename
    /\ \E s \in Scopes :
          \E k \in DOMAIN namespaces[s].bindings : namespaces[s].bindings[k].allow_rename

\* The binding of the first path segment of every dotted import without
\* alias: one binding holds the alias node, it is named after the segment
\* and it is not renamable.
DottedImportsKept ==
    \A i \in Aliases :
        DottedUnaliased(i) =>
            /\ Cardinality(BindingsHolding(i)) = 1
            /\ \A b \in BindingsHolding(i) :
                  /\ namespaces[b[1]].bindings[b[2]].name = root_module(tree[i].names)
                  /\ ~namespaces[b[1]].bindings[b[2]].allow_rename

\* The step of a pass at an alias that has an "as" name or an undotted
\* path changes the flag of no binding, and a binding it adds is renamable
\* unless it is the Resolver's binding for a name nothing defines.
OtherImportsKeepFlags ==
    (pc \in {"bind", "resolve"} /\ tree[pos].kind = "alias" /\ ~DottedUnaliased(pos)) =>
        \A s \in Scopes :
            /\ \A k \in DOMAIN namespaces[s].bindings :
                  namespaces'[s].bindings[k].allow_rename
                      = namespaces[s].bindings[k].allow_rename
            /\ \A k \in DOMAIN namespaces'[s].bindings \ DOMAIN namespaces[s].bindings :
                  \/ namespaces'[s].bindings[k].allow_rename
                  \/ /\ pc = "resolve"
                     /\ s = 1
                     /\ namespaces'[s].bindings[k].name \notin builtins

(***************************************************************************)
(* C25: after the passes, for every import alias without an "as" name      *)
(* whose path contains a dot, the binding of the first path segment has    *)
(* renaming disallowed, in whichever scope the import stands and also when *)
(* the name is declared nonlocal there; handling an aliased import, or an  *)
(* import of an undotted path, disallows the renaming of no binding.       *)
(***************************************************************************)
C25_DottedImportRootKept == [](Done => DottedImportsKept) /\ [][OtherImportsKeepFlags]_vars

\* import x.y in a scope that declares x nonlocal: the enclosing
\* function's x is not renamable while another binding of that function
\* still is.
C25_Witness ==
    /\ Done
    /\ \E i \in Aliases :
          /\ DottedUnaliased(i)
          /\ root_module(tree[i].names) \in namespaces[Owner(i)].nonlocal_names
          /\ \E b \in BindingsHolding(i) :
                /\ b[1] # 1
                /\ b[1] # Owner(i)
                /\ ~namespaces[b[1]].bindings[b[2]].allow_rename
                /\ \E k \in DOMAIN namespaces[b[1]].bindings :
                      namespaces[b[1]].bindings[k].allow_rename

(***************************************************************************)
(* Nonlocal declarations.                                                  *)
(***************************************************************************)
\* The nonlocal declaration nodes owned by a scope other than the module's.
NonlocalDeclarations ==
    { i \in Nodes : tree[i].kind = "Nonlocal" /\ Owner(i) # 1 }

\* The number of times node i occurs in the reference list of binding b.
TimesReferenced(i, b) ==
    Cardinality({ j \in DOMAIN References(b[1], b[2]) : References(b[1], b[2])[j] = i })

\* The number of times name n is listed by declaration i.
TimesListed(i, n) == Cardinality({ k \in DOMAIN tree[i].names : tree[i].names[k] = n })

\* Declaration i is a reference, once per listing of n, of the binding the
\* lookup of n from the nearest non-class proper ancestor of its scope
\* finds, and of no other binding named n.
DeclaredNameResolved(i, n) ==
    LET b == Found(n, NearestNonClassAncestor(Owner(i)))
    IN  /\ b[2] \in DOMAIN namespaces[b[1]].bindings
        /\ namespaces[b[1]].bindings[b[2]].name = n
        /\ TimesReferenced(i, b) = TimesListed(i, n)
        /\ \A c \in BindingsHolding(i) :
              namespaces[c[1]].bindings[c[2]].name = n => c = b

\* What C26 says of the declarations of the names picked by named(i, n).
NonlocalDeclarationsResolved(named(_, _)) ==
    \A i \in NonlocalDeclarations :
        /\ \A c \in BindingsHolding(i) :
              /\ c[1] # Owner(i)
              /\ namespaces[c[1]].bindings[c[2]].name \in Range(tree[i].names)
        /\ \A n \in Range(tree[i].names) :
              named(i, n) =>
                 /\ DeclaredNameResolved(i, n)
                 /\ (\A a \in Scopes : a # 1 /\ IsAncestorOrSelf(a, Owner(i)) => ~HasBinding(a, n))
                       => Found(n, NearestNonClassAncestor(Owner(i)))[1] = 1
                 /\ \A j \in NonlocalDeclarations :
                       ( /\ named(j, n)
                         /\ n \in Range(tree[j].names)
                         /\ IsFunction(Owner(i)) /\ IsFunction(Owner(j))
                         /\ namespaces[Owner(j)].parent_namespace = Owner(i) ) =>
                          Found(n, NearestNonClassAncestor(Owner(j)))
                             = Found(n, NearestNonClassAncestor(Owner(i)))

\* C26 as stated: for every nonlocal declaration in a non-module scope S
\* the Resolver appends the node as a reference once per listed name to
\* the binding found from the nearest non-class proper ancestor of S.
C26_AsClaimed ==
    Done => NonlocalDeclarationsResolved(LAMBDA i, n : TRUE)

(***************************************************************************)
(* C26: for every nonlocal declaration in a non-module scope S and every   *)
(* listed name that S does not also declare global, the Resolver appends   *)
(* the node as a reference, once per listing, to the binding found by the  *)
(* lookup from the nearest non-class proper ancestor of S, never to a      *)
(* binding of S; chained declarations in nested functions reach the same   *)
(* binding; when no enclosing scope binds the name the binding is one of   *)
(* the module scope. A name S also declares global goes to the module's    *)
(* binding.                                                                *)
(***************************************************************************)
C26_NonlocalDeclarationsResolved ==
    Done =>
        /\ NonlocalDeclarationsResolved(
              LAMBDA i, n : n \notin namespaces[Owner(i)].global_names)
        /\ \A i \in NonlocalDeclarations :
              \A n \in Range(tree[i].names) :
                  n \in namespaces[Owner(i)].global_names =>
                     /\ TimesReferenced(i, Found(n, 1)) = TimesListed(i, n)
                     /\ \A c \in BindingsHolding(i) :
                           namespaces[c[1]].bindings[c[2]].name = n => c = Found(n, 1)

\* def f(): x = ..; def f(): nonlocal x, x; def f(): nonlocal x   the
\* outer function's x holds the middle declaration twice and the inner one
\* once.
C26_Witness ==
    /\ Done
    /\ \E i, j \in NonlocalDeclarations :
          /\ IsFunction(Owner(i)) /\ IsFunction(Owner(j))
          /\ namespaces[Owner(j)].parent_namespace = Owner(i)
          /\ TimesListed(i, "x") = 2
          /\ TimesListed(j, "x") = 1
          /\ \E b \in BindingsHolding(i) :
                /\ b \in BindingsHolding(j)
                /\ b[1] = namespaces[Owner(i)].parent_namespace
                /\ b[1] # 1
                /\ TimesReferenced(i, b) = 2
                /\ TimesReferenced(j, b) = 1

(***************************************************************************)
(* Termination of the lookup.                                              *)
(***************************************************************************)
\* The names looked up: those of the inputs and one that nothing binds.
LookupNames == Names \cup {"y"}

\* a is a proper ancestor of s.
IsProperAncestor(a, s) == a # s /\ IsAncestorOrSelf(a, s)

\* The lookup of n from s: its calls climb strictly, there are at most as
\* many as scopes from s up to the module, and it returns a binding named
\* n in the scope of the last call.
LookupTerminates(n, s) ==
    LET calls == get_binding_calls(n, s, namespaces)
        r == get_binding(n, s, namespaces)
    IN  /\ calls[1] = s
        /\ \A k \in 1..(Len(calls) - 1) : IsProperAncestor(calls[k + 1], calls[k])
        /\ Len(calls) <= Depth(s)
        /\ r.ns = calls[Len(calls)]
        /\ r.idx \in DOMAIN r.nss[r.ns].bindings
        /\ r.nss[r.ns].bindings[r.idx].name = n
        /\ (r.nss # namespaces => r.ns = 1)

(***************************************************************************)
(* C27: on every scope tree the scope builder makes, for every scope S and *)
(* every name n, get_binding(n, S) terminates and returns a binding: every *)
(* recursive call is made on a proper ancestor of the scope of the call    *)
(* before, get_nonlocal_namespace of a non-module scope is an existing     *)
(* proper ancestor that is not a class scope, and the calls end at the     *)
(* module scope at the latest, after at most depth(S) steps.               *)
(***************************************************************************)
C27_LookupTerminates ==
    Built =>
        \A s \in Scopes :
            /\ s # 1 =>
                  /\ get_nonlocal_namespace(s, namespaces) \in Scopes
                  /\ IsProperAncestor(get_nonlocal_namespace(s, namespaces), s)
                  /\ ~IsClass(get_nonlocal_namespace(s, namespaces))
                  /\ get_global_namespace(s, namespaces) = 1
            /\ \A n \in LookupNames : LookupTerminates(n, s)

\* A lookup from a function in a class in a function that passes over
\* the class scope and ends at the module scope.
C27_Witness ==
    /\ Built
    /\ \E s \in Scopes : \E n \in LookupNames :
          LET calls == get_binding_calls(n, s, namespaces)
              c == namespaces[s].parent_namespace
          IN  /\ Depth(s) = 4
              /\ IsClass(c)
              /\ HasBinding(c, n)
              /\ Len(calls) = 3
              /\ calls[2] = namespaces[c].parent_namespace
              /\ calls[3] = 1

(***************************************************************************)
(* insert.                                                                 *)
(***************************************************************************)
\* The length of the longest prefix of suite made of statements that
\* satisfy leading.
PrefixLength(suite, leading(_)) ==
    CHOOSE p \in 0..Len(suite) :
        /\ \A k \in 1..p : leading(suite[k])
        /\ p < Len(suite) => ~leading(suite[p + 1])

\* result is suite with new_node put right after its first p statements.
InsertedAfter(suite, new_node, result, p) ==
    /\ Len(result) = Len(suite) + 1
    /\ result[p + 1] = new_node
    /\ \A k \in 1..p : result[k] = suite[k]
    /\ \A k \in (p + 1)..Len(suite) : result[k + 1] = suite[k]

\* A string-literal expression statement.
IsDocstring(node) == node.kind = "Expr" /\ node.value.kind = "Str"

\* insert puts every new node right after the longest prefix of leading
\* statements of every suite.
InsertsAfterPrefix(leading(_)) ==
    \A new_node \in NewNodes \ Range(tree) :
        InsertedAfter(tree, new_node, insert(tree, new_node),
                      PrefixLength(tree, leading))

MethodOfType(value) ==
    CASE value.type \in {"NoneType", "bool"} -> "visit_NameConstant"
      [] value.type \in {"int", "float", "complex"} -> "visit_Num"
      [] value.type = "str" -> "visit_Str"
      [] value.type = "bytes" -> "visit_Bytes"
      [] value.type = "ellipsis" -> "visit_Ellipsis"
      [] OTHER -> "RuntimeError"

\* The visitor a value goes to by its type, given the methods defined.
VisitorOfType(defined, value) ==
    IF MethodOfType(value) \in defined \cup {"RuntimeError"}
    THEN MethodOfType(value)
    ELSE "generic_visit"

(***************************************************************************)
(* C29: visit_Constant dispatches by the type of the value: None, True and *)
(* False go to visit_NameConstant, every int, float and complex value (0,  *)
(* 1, 0.0 and 1.0 too) to visit_Num, str to visit_Str, bytes to            *)
(* visit_Bytes, Ellipsis to visit_Ellipsis, any other type raises          *)
(* RuntimeError, and generic_visit stands in for a method not defined.     *)
(***************************************************************************)
C29_DispatchByType ==
    pos > 1 =>
        /\ \A defined \in SUBSET VisitMethods :
              visit_Constant(defined, tree[pos - 1])
                  = VisitorOfType(defined, tree[pos - 1].value)
        /\ pc \in {MethodOfType(tree[pos - 1].value), "generic_visit"}

(***************************************************************************)
(* Annotations of *args and **kwargs.                                      *)
(***************************************************************************)
\* The roots of the annotations of the *args and **kwargs parameters of d.
VariadicAnnotationsOf(d) ==
    { r \in Nodes : /\ tree[r].field = "annotation"
                    /\ tree[r].parent \in ParametersOf(d, {"vararg", "kwarg"}) }

(***************************************************************************)
(* C30: every node of the annotation of a *args or **kwargs parameter of a *)
(* function is owned by the scope that owns the annotations of the         *)
(* function's ordinary parameters, never by the function scope, and a name *)
(* read in such an annotation is, once resolved, no reference of a binding *)
(* held by the function scope.                                             *)
(***************************************************************************)
C30_VariadicAnnotationsOutside ==
    \A d \in Nodes : \A r \in VariadicAnnotationsOf(d) : \A i \in Nodes :
        ( IsFunctionDef(d) /\ DirectlyWithin(i, r) ) =>
            /\ Built =>
                  /\ Owner(i) \notin OwnScopesOf(d)
                  /\ \A q \in ParameterAnnotationsOf(d) : Owner(i) = Owner(q)
            /\ ( IsLoad(i) /\ Resolved(i) ) => Holders(i) \cap OwnScopesOf(d) = {}

====
